---------------------------- MODULE Spec2Model ----------------------------
(***************************************************************************)
(* Model of the semantic organisation engine of llm-journal: the entry     *)
(* store (databaseService), the k-means engine (embeddingsService), the    *)
(* cluster lifecycle (clusteringService), the background enrichment task   *)
(* started after a save (HomeScreen), the backfill script and the search   *)
(* service.  Every `await` of the JavaScript sources is a point where      *)
(* another asynchronous task may run, so each awaited store or provider    *)
(* call is one atomic step of the task that makes it.                      *)
(***************************************************************************)
EXTENDS Integers, Sequences, FiniteSets, TLC

(***************************************************************************)
(* Bounds of the model.                                                    *)
(***************************************************************************)
InitEntries == 4      \* entries already in the store when the model starts
MaxTime     == 1      \* last value of the clock
MaxBackfills   == 1   \* presses of the backfill button
MaxDirectCalls == 2   \* direct calls of regenerateClusters
MaxFaults      == 1   \* store or provider calls that fail in one behaviour
MaxDeletes     == 1   \* entries the user deletes in one behaviour
MaxDerived     == 2   \* conversation messages, and folder memberships, ever inserted
MaxRecordings  == 2   \* recordings stopped on HomeScreen
MaxDim         == 2   \* longest vector handed to cosineSimilarity called on its own
MaxRows        == 3   \* entries handed to clusterEmbeddings called on its own
MaxK           == 4   \* largest k handed to clusterEmbeddings called on its own

(***************************************************************************)
(* Program constants.                                                      *)
(***************************************************************************)
DefaultClusterCount == 5       \* clusteringService.js:26
MinEntriesToCluster == 3       \* clusteringService.js:32
MinClusterSize      == 2       \* clusteringService.js:68
InitialThreshold    == 5       \* clusteringService.js:108
DefaultThreshold    == 10      \* clusteringService.js:103
MaxIterations       == 10      \* embeddingsService.js:76

(***************************************************************************)
(* Optional values: SQL NULL / JavaScript null is the empty sequence, a    *)
(* present value v is <<v>>.                                               *)
(***************************************************************************)
NULL == << >>
Some(v) == << v >>
IsNull(o) == o = << >>
Val(o) == o[1]

Min(a, b) == IF a <= b THEN a ELSE b

\* JSON.stringify / JSON.parse of a number array, as stored in a TEXT column.
JSONStringify(v) == [json |-> v]
JSONParse(s) == s.json

\* The elements of a sequence of numbers, ascending and descending.
RECURSIVE SortedSeq(_)
SortedSeq(S) ==
  IF S = {} THEN << >>
  ELSE LET m == CHOOSE x \in S : \A y \in S : x <= y
       IN  << m >> \o SortedSeq(S \ {m})

RECURSIVE SortedDesc(_)
SortedDesc(S) ==
  IF S = {} THEN << >>
  ELSE LET m == CHOOSE x \in S : \A y \in S : x >= y
       IN  << m >> \o SortedDesc(S \ {m})



(***************************************************************************)
(* VectorMath and ClusterEngine (embeddingsService.js).                    *)
(*                                                                         *)
(* A vector is [num |-> <<integers>>, den |-> d], standing for num/d       *)
(* element-wise, so that the mean of integer vectors is exact.  A cosine   *)
(* similarity is kept as [d |-> dot, n |-> |a|^2 * |b|^2], standing for    *)
(* d / sqrt(n); the arithmetic is exact where the code uses doubles.       *)
(***************************************************************************)
Vec(s) == [num |-> s, den |-> 1]

RECURSIVE SumTo(_, _)
SumTo(f, n) == IF n = 0 THEN 0 ELSE f[n] + SumTo(f, n - 1)

Dot(a, b) == SumTo([i \in 1..Len(a) |-> a[i] * b[i]], Len(a))
NormSq(a) == Dot(a, a)

ZeroSim == [d |-> 0, n |-> 1]

\* A similarity without the test of the denominator: 0 / 0 where a norm is 0.
cosineUnguarded(a, b) ==
  IF IsNull(a) \/ IsNull(b) THEN ZeroSim
  ELSE IF Len(Val(a).num) # Len(Val(b).num) THEN ZeroSim
  ELSE [d |-> Dot(Val(a).num, Val(b).num),
        n |-> NormSq(Val(a).num) * NormSq(Val(b).num)]

\* cosineSimilarity(a, b) for optional vectors a and b.
cosineSimilarity(a, b) ==
  IF IsNull(a) \/ IsNull(b) THEN ZeroSim
  ELSE IF Len(Val(a).num) # Len(Val(b).num) THEN ZeroSim
  ELSE LET x == Val(a).num
           y == Val(b).num
           denominatorSq == NormSq(x) * NormSq(y)
       IN  IF denominatorSq = 0 THEN ZeroSim
           ELSE [d |-> Dot(x, y), n |-> denominatorSq]

\* s > t for two similarities (the comparison of line 110).
SimGreater(s, t) ==
  IF s.d >= 0 /\ t.d >= 0 THEN s.d * s.d * t.n > t.d * t.d * s.n
  ELSE IF s.d >= 0 THEN TRUE
  ELSE IF t.d >= 0 THEN FALSE
  ELSE s.d * s.d * t.n < t.d * t.d * s.n

\* The k distinct indices the initialisation loop may draw, in drawing order.
InitialIndices(n, k) ==
  { s \in [1..k -> 0..(n - 1)] : \A i, j \in 1..k : i # j => s[i] # s[j] }

\* The inner loop of the assignment step: the best cluster among 0..j-1
\* having looked at centroids 0..j-1.
RECURSIVE BestCluster(_, _, _)
BestCluster(e, centroids, j) ==
  IF j = 1 THEN 0
  ELSE LET prev == BestCluster(e, centroids, j - 1)
           bestSimilarity == cosineSimilarity(Some(e), Some(centroids[prev + 1]))
           similarity == cosineSimilarity(Some(e), Some(centroids[j]))
       IN  IF SimGreater(similarity, bestSimilarity) THEN j - 1 ELSE prev

\* Every point given the index past the last centroid.
AssignPastLast(embeddings, centroids) ==
  [i \in 1..Len(embeddings) |-> Len(centroids)]

\* The assignment step of lines 102-119, all points at once.
AssignmentStep(embeddings, centroids) ==
  [i \in 1..Len(embeddings) |-> BestCluster(embeddings[i], centroids, Len(centroids))]

\* An update step that leaves every centroid as it was.
KeepCentroids(embeddings, centroids, assignments) == centroids

\* The update step: a centroid with members becomes their mean, one without
\* members keeps its value.
UpdateStep(embeddings, centroids, assignments) ==
  [j \in 1..Len(centroids) |->
     LET members == { i \in 1..Len(embeddings) : assignments[i] = j - 1 }
         dims == Len(embeddings[1].num)
     IN  IF Cardinality(members) > 0
         THEN [num |-> [dd \in 1..dims |->
                          SumTo([m \in 1..Len(embeddings) |->
                                   IF m \in members THEN embeddings[m].num[dd] ELSE 0],
                                Len(embeddings))],
               den |-> Cardinality(members)]
         ELSE centroids[j]]

\* A pass that is taken to have changed something whatever it assigned.
alwaysChanged(new, old) == TRUE

\* The flag of lines 100 and 115-118 at the end of an assignment pass.
changed(new, old) == new # old

\* The refinement loop from pass `iter` on; `passes` counts assignment steps
\* `trace` lists the assignments each of them left and `centroidTrace` the
\* centroids each of them compared with.
RECURSIVE Refine(_, _, _, _)
Refine(embeddings, centroids, assignments, iter) ==
  IF iter >= MaxIterations
  THEN [assignments |-> assignments, centroids |-> centroids, passes |-> iter,
        trace |-> << >>, centroidTrace |-> << >>]
  ELSE LET new == AssignmentStep(embeddings, centroids)
       IN  IF ~changed(new, assignments)
           THEN [assignments |-> new, centroids |-> centroids,
                 passes |-> iter + 1, trace |-> << new >>,
                 centroidTrace |-> << centroids >>]
           ELSE LET rest == Refine(embeddings, UpdateStep(embeddings, centroids, new),
                                   new, iter + 1)
                IN  [rest EXCEPT !.trace = << new >> \o @,
                                 !.centroidTrace = << centroids >> \o @]

\* Lines 82-124 of clusterEmbeddings when the random draws are `init`.
refinement(rows, k, init) ==
  LET embeddings == [i \in 1..Len(rows) |-> rows[i].embedding]
      centroids == [j \in 1..k |-> embeddings[init[j] + 1]]
  IN  Refine(embeddings, centroids, [i \in 1..Len(rows) |-> 0], 0)

\* An assignment by position in the list, whatever k.
ClusterByPosition(rows, k, init) ==
  [i \in 1..Len(rows) |-> [entryId |-> rows[i].id, clusterId |-> (i - 1) % k]]

\* clusterEmbeddings(entries, k) when the random draws are `init`; entries is
\* a sequence of [id, embedding] rows.
clusterEmbeddings(rows, k, init) ==
  IF Len(rows) < k
  THEN [i \in 1..Len(rows) |-> [entryId |-> rows[i].id, clusterId |-> 0]]
  ELSE LET run == refinement(rows, k, init)
       IN  [i \in 1..Len(rows) |->
              [entryId |-> rows[i].id, clusterId |-> run.assignments[i]]]


(***************************************************************************)
(* State.                                                                  *)
(***************************************************************************)
VARIABLES
  entries,       \* journal_entries: id -> row, for the rows that exist
  nextEntryId,   \* AUTOINCREMENT of journal_entries
  folders,       \* smart_folders: a set of rows
  nextFolderId,  \* AUTOINCREMENT of smart_folders
  settings,      \* settings table: key -> optional value
  now,           \* the clock read by new Date() and CURRENT_TIMESTAMP
  provider,      \* entry id -> the vector generateEmbedding returns for its text
  pc,            \* task -> position in its code
  call,          \* task -> locals of the caller (enrichment, backfill, direct)
  run,           \* task -> locals and record of its regenerateClusters call
  calls,         \* number of direct calls and backfill presses so far
  faults,        \* number of collaborator failures so far
  search,        \* locals and record of the searchEntries call
  engine,        \* arguments and result of a pure function called on its own
  derived,       \* conversation_messages and folder_entries, and whether the
                 \* SQLite build enforces foreign keys
  screen         \* HomeScreen: currentEntryId and the handleStopRecording call

vars == << entries, nextEntryId, folders, nextFolderId, settings, now, provider,
           pc, call, run, calls, faults, search, engine, derived, screen >>

Tasks == {"bg", "bf", "direct"}

\* Positions inside regenerateClusters.
RunPositions == {"r_fetch", "r_write", "r_folders", "r_delete", "r_create", "r_date"}

InFlight(p) == pc[p] \in RunPositions

NoRun ==
  [numClusters |-> NULL, n |-> NULL, k |-> NULL, fallback |-> FALSE,
   assign |-> << >>, i |-> 1, del |-> << >>,
   keys |-> << >>, startFolders |-> {}, startDate |-> NULL, writes |-> {},
   deleted |-> {},
   created |-> << >>, labelFailed |-> {}, error |-> FALSE, setDate |-> FALSE,
   outcome |-> "none"]

NoCall ==
  [entry |-> 0, todo |-> << >>, processed |-> 0, total |-> 0,
   lastDate |-> NULL, threshold |-> NULL, stError |-> FALSE,
   result |-> NULL, outcome |-> "none"]

(***************************************************************************)
(* EntryStore (databaseService).                                           *)
(***************************************************************************)
\* A text is a sequence of words.  The columns of a row once
\* handleStopRecording has created it at time t and stored its transcript and
\* summary: no name, embedding, topics or cluster yet.
RecordedText == << "note" >>

NewEntry(t) ==
  [transcript |-> Some(RecordedText), summary |-> Some(RecordedText), name |-> NULL,
   embedding |-> NULL, topics |-> NULL, cluster_id |-> NULL, created_at |-> t]

\* What extractTopics returns for a recorded text, as the topics column keeps
\* it (JSON.stringify(topics)).
ExtractedTopics == << "note" >>
StoredTopics == Some(JSONStringify(ExtractedTopics))

\* An update that is not kept.
discardedUpdate(store, id, field, value) == store

\* updateJournalEntry(id, updates): UPDATE ... WHERE id = ?; no row, no change.
updateJournalEntry(store, id, field, value) ==
  IF id \in DOMAIN store THEN [store EXCEPT ![id][field] = value] ELSE store

\* A deletion that would keep the row and clear its embedding.
clearEmbedding(store, id) == [store EXCEPT ![id].embedding = NULL]

\* deleteJournalEntry(id): DELETE FROM journal_entries WHERE id = ?.
deleteJournalEntry(store, id) == [e \in DOMAIN store \ {id} |-> store[e]]

\* What the DELETE does to the other tables: conversation_messages declares
\* ON DELETE CASCADE (part_004 line 31), which SQLite applies only when
\* foreign keys are enforced; folder_entries declares no foreign key.
CascadeDelete(d, id) ==
  [d EXCEPT !.messages = IF d.foreignKeys
                         THEN { m \in @ : m.entry_id # id }
                         ELSE @]

\* The column list of getEntriesForClustering's SELECT, as the row objects it
\* returns (transcript and summary carry no state of the model).
ClusteringRow(store, id) ==
  [id |-> id,
   embedding |-> IF IsNull(store[id].embedding) THEN NULL
                 ELSE Some(JSONParse(Val(store[id].embedding)))]

\* getEntriesForClustering(): the rows WHERE embedding IS NOT NULL, in rowid order.
getEntriesForClustering(store) ==
  LET ids == SortedSeq({ id \in DOMAIN store : ~IsNull(store[id].embedding) })
  IN  [i \in 1..Len(ids) |-> ClusteringRow(store, ids[i])]

\* getSetting(key): result?.value || null.
getSetting(key) == settings[key]

\* Settings values are TEXT: a number n is stored as its decimal string, a
\* date t as its ISO string.
NumberString(n) == [digits |-> n]
parseInt(s) == s.digits
toISOString(t) == [iso |-> t]
DateOf(s) == s.iso

\* createSmartFolder(name, type, rules, clusterId): the inserted row.
SmartFolderRow(id, name, type, clusterId) ==
  [id |-> id, name |-> name, type |-> type, rules |-> NULL, cluster_id |-> clusterId]

\* deleteSmartFolder(id): DELETE FROM smart_folders WHERE id = ?.
deleteSmartFolder(fs, id) == { f \in fs : f.id # id }

\* A delete loop that would spare the folders the user renamed.
UnrenamedClusterFolderIds(fs) ==
  { f.id : f \in { g \in fs : g.type = "cluster" /\ g.name # "Renamed" } }

\* deleteSmartFolder(id), second statement: DELETE FROM folder_entries WHERE
\* folder_id = ? AND folder_type = 'smart'.
deleteFolderEntries(d, id) ==
  [d EXCEPT !.folder_entries =
     { r \in @ : ~(r.folder_id = id /\ r.folder_type = "smart") }]

\* The ids of all smart folders, whatever their type.
AllFolderIds(fs) == { f.id : f \in fs }

\* The ids of the folders the delete loop of regenerateClusters visits, in
\* getSmartFolders' order (newest first).
ClusterFolderIds(fs) == { f.id : f \in { g \in fs : g.type = "cluster" } }


storeVars == << entries, nextEntryId, folders, nextFolderId, settings >>
envVars == << now, provider >>

\* An awaited store or provider call rejects (or, for labelCluster and
\* extractTopics, falls back): the environment's choice, at most MaxFaults
\* times in a behaviour.
Fault == faults < MaxFaults /\ faults' = faults + 1
NoFault == faults' = faults

(***************************************************************************)
(* ClusterLifecycleManager: regenerateClusters (clusteringService.js).     *)
(***************************************************************************)
\* Line 26: setting ? parseInt(setting) : 5, when no argument was given.
NumClusters(arg) ==
  IF ~IsNull(arg) THEN Val(arg)
  ELSE IF ~IsNull(getSetting("cluster_count"))
       THEN parseInt(Val(getSetting("cluster_count")))
  ELSE DefaultClusterCount

\* A floor of 2 entries instead of 3.
TooFewEntriesBelowTwo(n) == n < 2

\* Line 32: entries.length < 3.
TooFewEntries(n) == n < MinEntriesToCluster

\* The requested count handed to the engine as it is.
RequestedK(numClusters, n) == numClusters

\* Line 38: Math.min(numClusters, Math.floor(entries.length / 2)).
EffectiveK(numClusters, n) == Min(numClusters, n \div 2)

\* Lines 46-52: the entry ids grouped under cluster id c.
ClusterGroup(assign, c) ==
  { assign[i].entryId : i \in { j \in 1..Len(assign) : assign[j].clusterId = c } }

\* A creation loop that would keep single-entry clusters.
SurvivesAlone(size) == size >= 1

\* Line 68: a cluster with fewer than 2 entries gets no folder.
Survives(size) == size >= MinClusterSize

\* The keys of clusterGroups the creation loop does not skip, in
\* Object.entries order (integer keys ascending).
SurvivingKeys(assign) ==
  SortedSeq({ c \in { assign[i].clusterId : i \in 1..Len(assign) } :
                Survives(Cardinality(ClusterGroup(assign, c))) })

\* A labelCluster that would return the empty string when it fails.
EmptyLabel == ""

\* embeddingsService.js:245: what labelCluster returns when it fails.
FallbackLabel == "Untitled Topic"

\* A catch block that would log the error and return.
SwallowedOutcome == "ok"

\* Lines 90-93: the catch block logs and throws the error again.
CatchOutcome == "rejected"

\* A caller that hands every rejection on.
RethrowingOutcome(p, outcome) ==
  IF outcome = "ok" THEN "resolved" ELSE "rejected"

\* What the caller's own promise settles to when its regenerateClusters call
\* settles with `outcome`: the enrichment task swallows a rejection
\* (HomeScreen lines 204-207), backfill throws it again (lines 80-83).
CallerOutcome(p, outcome) ==
  IF p = "bg" THEN "resolved"
  ELSE IF outcome = "ok" THEN "resolved" ELSE "rejected"

\* What the caller returns once its regenerateClusters call has settled:
\* backfillEmbeddings returns {processed, total} (lines 75-78) when the call
\* did not reject; the other callers return nothing more.
CallerResult(p, outcome) ==
  IF p = "bf" /\ outcome = "ok"
  THEN Some([processed |-> call[p].processed, total |-> call[p].total])
  ELSE call[p].result

\* regenerateClusters settles with run record r.
Finish(p, r) ==
  /\ run' = [run EXCEPT ![p] = r]
  /\ pc' = [pc EXCEPT ![p] = "done"]
  /\ call' = [call EXCEPT ![p].outcome = CallerOutcome(p, r.outcome),
                          ![p].result = CallerResult(p, r.outcome)]

\* An awaited call rejects: control goes to the catch block.
Throw(p, r) ==
  /\ Fault
  /\ Finish(p, [r EXCEPT !.error = TRUE, !.outcome = CatchOutcome])

\* The call itself: numClusters is the argument (null when none is given).
BeginRun(p, arg) ==
  /\ run' = [run EXCEPT ![p] =
               [NoRun EXCEPT !.numClusters = arg,
                             !.startFolders = { f \in folders : f.type = "cluster" },
                             !.startDate = getSetting("last_clustering_date")]]
  /\ pc' = [pc EXCEPT ![p] = "r_fetch"]

\* Where the run goes once the delete loop is over.
AfterDelete(assign) ==
  IF SurvivingKeys(assign) = << >> THEN "r_date" ELSE "r_create"

\* Lines 24-43: getSetting('cluster_count') and getEntriesForClustering(), two
\* reads with no write of any task between them that they could see
\* (cluster_count is never written), then the synchronous clustering.
RFetch(p) ==
  /\ pc[p] = "r_fetch"
  /\ UNCHANGED << screen, search, engine, derived, storeVars, envVars, calls >>
  /\ \/ Throw(p, run[p])
     \/ LET rows == getEntriesForClustering(entries)
            n == Len(rows)
            k == EffectiveK(NumClusters(run[p].numClusters), n)
        IN  IF TooFewEntries(n)
            THEN /\ NoFault
                 /\ Finish(p, [run[p] EXCEPT !.n = Some(n), !.outcome = "ok"])
            ELSE \E init \in IF n < k THEN {<< >>} ELSE InitialIndices(n, k) :
                   /\ NoFault
                   /\ run' = [run EXCEPT ![p].n = Some(n),
                                         ![p].k = Some(k),
                                         ![p].fallback = n < k,
                                         ![p].assign =
                                            clusterEmbeddings(
                                              [i \in 1..n |->
                                                 [id |-> rows[i].id,
                                                  embedding |-> Val(rows[i].embedding)]],
                                              k, init),
                                         ![p].i = 1]
                   /\ pc' = [pc EXCEPT ![p] = "r_write"]
                   /\ UNCHANGED call

\* Line 55, updateEntryClusters: one awaited UPDATE per assignment.
RWrite(p) ==
  /\ pc[p] = "r_write"
  /\ UNCHANGED << screen, search, engine, derived, nextEntryId, folders, nextFolderId, settings, envVars, calls >>
  /\ \/ /\ Throw(p, run[p])
        /\ UNCHANGED entries
     \/ LET a == run[p].assign[run[p].i]
        IN  /\ NoFault
            /\ entries' = updateJournalEntry(entries, a.entryId, "cluster_id",
                                             Some(a.clusterId))
            /\ run' = [run EXCEPT ![p].writes = @ \cup {a.entryId}, ![p].i = @ + 1]
            /\ pc' = [pc EXCEPT ![p] = IF run[p].i = Len(run[p].assign)
                                       THEN "r_folders" ELSE "r_write"]
            /\ UNCHANGED call

\* Line 58: getSmartFolders(); the loop of lines 59-63 then visits the rows of
\* type 'cluster'.
RFolders(p) ==
  /\ pc[p] = "r_folders"
  /\ UNCHANGED << screen, search, engine, derived, storeVars, envVars, calls >>
  /\ \/ Throw(p, run[p])
     \/ LET del == SortedDesc(ClusterFolderIds(folders))
        IN  /\ NoFault
            /\ run' = [run EXCEPT ![p].del = del,
                                  ![p].keys = SurvivingKeys(run[p].assign),
                                  ![p].i = 1]
            /\ pc' = [pc EXCEPT ![p] = IF del = << >> THEN AfterDelete(run[p].assign)
                                       ELSE "r_delete"]
            /\ UNCHANGED call

\* Line 61: deleteSmartFolder(folder.id), two awaited DELETEs; the second one
\* (folder_entries) may reject after the folder row is gone.
RDelete(p) ==
  /\ pc[p] = "r_delete"
  /\ UNCHANGED << screen, search, engine, entries, nextEntryId, nextFolderId, settings, envVars, calls >>
  /\ LET id == Head(run[p].del)
         r == [run[p] EXCEPT !.deleted = @ \cup {id}, !.del = Tail(@)]
     IN  \/ /\ Throw(p, run[p])
            /\ UNCHANGED << folders, derived >>
         \/ /\ folders' = deleteSmartFolder(folders, id)
            /\ Throw(p, r)
            /\ UNCHANGED derived
         \/ /\ NoFault
            /\ folders' = deleteSmartFolder(folders, id)
            /\ derived' = deleteFolderEntries(derived, id)
            /\ run' = [run EXCEPT ![p] = r]
            /\ pc' = [pc EXCEPT ![p] = IF r.del = << >> THEN AfterDelete(r.assign)
                                       ELSE "r_delete"]
            /\ UNCHANGED call

\* Lines 67-84, one surviving cluster: getJournalEntry for up to 3 members and
\* labelCluster (reads; labelCluster never rejects), then createSmartFolder.
RCreate(p) ==
  /\ pc[p] = "r_create"
  /\ UNCHANGED << screen, search, engine, derived, entries, nextEntryId, settings, envVars, calls >>
  /\ LET key == run[p].keys[run[p].i]
     IN  \/ /\ Throw(p, run[p])
            /\ UNCHANGED << folders, nextFolderId >>
         \/ \E labelled \in BOOLEAN :
              LET label == IF labelled THEN "Label" ELSE FallbackLabel
                  failed == IF labelled THEN 0 ELSE 1
                  r == [run[p] EXCEPT
                          !.labelFailed = IF labelled THEN @ ELSE @ \cup {key}]
              IN  \/ /\ faults + failed + 1 <= MaxFaults
                     /\ faults' = faults + failed + 1
                     /\ Finish(p, [r EXCEPT !.error = TRUE, !.outcome = CatchOutcome])
                     /\ UNCHANGED << folders, nextFolderId >>
                  \/ /\ faults + failed <= MaxFaults
                     /\ faults' = faults + failed
                     /\ folders' = folders \cup
                           {SmartFolderRow(nextFolderId, label, "cluster", Some(key))}
                     /\ nextFolderId' = nextFolderId + 1
                     /\ run' = [run EXCEPT ![p] =
                                  [r EXCEPT !.created =
                                              Append(@, [id |-> nextFolderId,
                                                         cluster_id |-> key,
                                                         name |-> label]),
                                            !.i = @ + 1]]
                     /\ pc' = [pc EXCEPT ![p] = IF run[p].i = Len(run[p].keys)
                                                THEN "r_date" ELSE "r_create"]
                     /\ UNCHANGED call

\* Line 87: setSetting('last_clustering_date', new Date().toISOString()).
RDate(p) ==
  /\ pc[p] = "r_date"
  /\ UNCHANGED << screen, search, engine, derived, entries, nextEntryId, folders, nextFolderId, envVars, calls >>
  /\ \/ /\ Throw(p, run[p])
        /\ UNCHANGED settings
     \/ /\ NoFault
        /\ settings' = [settings EXCEPT !["last_clustering_date"] =
                                         Some(toISOString(now))]
        /\ Finish(p, [run[p] EXCEPT !.setDate = TRUE, !.outcome = "ok"])

\* A direct call regenerateClusters(numClusters).
DirectArgs == {Some(2)}

DirectCall ==
  /\ pc["direct"] \in {"idle", "done"}
  /\ calls["direct"] < MaxDirectCalls
  /\ \E arg \in DirectArgs : BeginRun("direct", arg)
  /\ calls' = [calls EXCEPT !["direct"] = @ + 1]
  /\ UNCHANGED << screen, search, engine, derived, storeVars, envVars, call, faults >>


(***************************************************************************)
(* shouldTriggerClustering (clusteringService.js lines 100-124).           *)
(***************************************************************************)
\* A first trigger that would use the configured threshold.
ThresholdTrigger(n) ==
  n >= (IF IsNull(getSetting("cluster_threshold")) THEN DefaultThreshold
        ELSE parseInt(Val(getSetting("cluster_threshold"))))

\* Line 108: the initial threshold.
InitialTrigger(n) == n >= InitialThreshold

\* Lines 115-116: new Date(entry.created_at) > lastDate.  A row object without
\* a created_at property gives new Date(undefined), an Invalid Date, and every
\* comparison with it is false.
EntryDateAfter(row, lastDate) ==
  IF "created_at" \in DOMAIN row THEN row.created_at > lastDate ELSE FALSE

\* Line 103: getSetting('cluster_threshold') || '10', parsed at line 119.
Threshold(setting) ==
  IF IsNull(setting) THEN DefaultThreshold ELSE parseInt(Val(setting))

\* Lines 105-119, given what the two settings reads and the entries read gave.
ShouldTrigger(lastClusteringDate, clusterThreshold, rows) ==
  IF IsNull(lastClusteringDate)
  THEN InitialTrigger(Len(rows))
  ELSE LET newEntries == { i \in 1..Len(rows) :
                             EntryDateAfter(rows[i], DateOf(Val(lastClusteringDate))) }
       IN  Cardinality(newEntries) >= Threshold(clusterThreshold)

\* Lines 120-123: the catch block returns false.
TriggerOnError == FALSE

\* Lines 102-103: the two settings reads.
StSettings(p) ==
  /\ pc[p] = "st_settings"
  /\ UNCHANGED << screen, search, engine, derived, storeVars, envVars, calls, run >>
  /\ \/ /\ Fault
        /\ call' = [call EXCEPT ![p].stError = TRUE,
                                ![p].result = Some(TriggerOnError),
                                ![p].outcome = "resolved"]
        /\ pc' = [pc EXCEPT ![p] = "done"]
     \/ /\ NoFault
        /\ call' = [call EXCEPT ![p].lastDate = getSetting("last_clustering_date"),
                                ![p].threshold = getSetting("cluster_threshold")]
        /\ pc' = [pc EXCEPT ![p] = "st_fetch"]

\* Lines 107 / 112: getEntriesForClustering(), then the result; HomeScreen
\* lines 199-203 call regenerateClusters() when it is true.
StFetch(p) ==
  /\ pc[p] = "st_fetch"
  /\ UNCHANGED << screen, search, engine, derived, storeVars, envVars, calls >>
  /\ \/ /\ Fault
        /\ call' = [call EXCEPT ![p].stError = TRUE,
                                ![p].result = Some(TriggerOnError),
                                ![p].outcome = "resolved"]
        /\ pc' = [pc EXCEPT ![p] = "done"]
        /\ UNCHANGED run
     \/ LET shouldCluster == ShouldTrigger(call[p].lastDate, call[p].threshold,
                                           getEntriesForClustering(entries))
        IN  /\ NoFault
            /\ IF shouldCluster
               THEN /\ BeginRun(p, NULL)
                    /\ call' = [call EXCEPT ![p].result = Some(shouldCluster)]
               ELSE /\ pc' = [pc EXCEPT ![p] = "done"]
                    /\ call' = [call EXCEPT ![p].result = Some(shouldCluster),
                                            ![p].outcome = "resolved"]
                    /\ UNCHANGED run

(***************************************************************************)
(* Background enrichment after a save (HomeScreen).                        *)
(***************************************************************************)
\* The embedding column as generateEmbedding's vector is stored.
StoredEmbedding(id) == Some(JSONStringify(Vec(provider[id])))

\* handleStopRecording in solo mode, when recording, transcription and summary
\* succeed (lines 109-150): the entry is created and saved, and
\* generateEmbeddingAndTopics is started without being awaited.
Save ==
  /\ pc["bg"] = "idle"
  /\ nextEntryId \in DOMAIN provider
  /\ entries' = [id \in DOMAIN entries \cup {nextEntryId} |->
                   IF id = nextEntryId THEN NewEntry(now) ELSE entries[id]]
  /\ nextEntryId' = nextEntryId + 1
  /\ pc' = [pc EXCEPT !["bg"] = "embed"]
  /\ call' = [call EXCEPT !["bg"] = [NoCall EXCEPT !.entry = nextEntryId]]
  /\ UNCHANGED << screen, search, engine, derived, folders, nextFolderId, settings, envVars, calls, run, faults >>

\* generateEmbeddingAndTopics lines 185-188; a rejection goes to the catch
\* block of lines 204-207, which does not throw.
BgEmbed ==
  /\ pc["bg"] = "embed"
  /\ UNCHANGED << screen, search, engine, derived, nextEntryId, folders, nextFolderId, settings, envVars, calls, run >>
  /\ \/ /\ Fault
        /\ pc' = [pc EXCEPT !["bg"] = "done"]
        /\ call' = [call EXCEPT !["bg"].outcome = "resolved"]
        /\ UNCHANGED entries
     \/ /\ NoFault
        /\ entries' = updateJournalEntry(entries, call["bg"].entry, "embedding",
                                         StoredEmbedding(call["bg"].entry))
        /\ pc' = [pc EXCEPT !["bg"] = "topics"]
        /\ UNCHANGED call

\* Lines 191-194: extractTopics never rejects; the UPDATE may.
BgTopics ==
  /\ pc["bg"] = "topics"
  /\ UNCHANGED << screen, search, engine, derived, nextEntryId, folders, nextFolderId, settings, envVars, calls, run >>
  /\ \/ /\ Fault
        /\ pc' = [pc EXCEPT !["bg"] = "done"]
        /\ call' = [call EXCEPT !["bg"].outcome = "resolved"]
        /\ UNCHANGED entries
     \/ /\ NoFault
        /\ entries' = updateJournalEntry(entries, call["bg"].entry, "topics", StoredTopics)
        /\ pc' = [pc EXCEPT !["bg"] = "st_settings"]
        /\ UNCHANGED call

(***************************************************************************)
(* backfillEmbeddings (scripts/backfillEmbeddings.js).                     *)
(***************************************************************************)
\* An entry list that takes every entry of the store.
AllEntries(store) == SortedDesc(DOMAIN store)

\* Lines 15-18: getJournalEntries() (newest first) filtered to the rows
\* without an embedding.
EntriesNeedingEmbeddings(store) ==
  SortedDesc({ id \in DOMAIN store : IsNull(store[id].embedding) })

\* Where the loop of lines 30-64 goes after one entry: the next entry, or
\* regenerateClusters() of line 70.
BackfillNext(rest) ==
  IF rest = << >>
  THEN BeginRun("bf", NULL)
  ELSE /\ pc' = [pc EXCEPT !["bf"] = "bf_embed"]
       /\ UNCHANGED run

StartBackfill ==
  /\ pc["bf"] \in {"idle", "done"}
  /\ calls["bf"] < MaxBackfills
  /\ calls' = [calls EXCEPT !["bf"] = @ + 1]
  /\ UNCHANGED << screen, search, engine, derived, storeVars, envVars >>
  /\ \/ /\ Fault
        /\ pc' = [pc EXCEPT !["bf"] = "done"]
        /\ call' = [call EXCEPT !["bf"] = [NoCall EXCEPT !.outcome = "rejected"]]
        /\ UNCHANGED run
     \/ LET todo == EntriesNeedingEmbeddings(entries)
        IN  /\ NoFault
            /\ call' = [call EXCEPT !["bf"] =
                          [NoCall EXCEPT !.todo = todo, !.total = Len(todo),
                                         !.outcome = IF todo = << >> THEN "resolved"
                                                     ELSE "none"]]
            /\ pc' = [pc EXCEPT !["bf"] = IF todo = << >> THEN "done" ELSE "bf_embed"]
            /\ UNCHANGED run

\* Line 32: entry.transcript || entry.summary || '', of the row as line 15
\* read it; the columns are written once, when the entry is saved.
TextOf(row) ==
  IF ~IsNull(row.transcript) /\ Val(row.transcript) # << >> THEN Val(row.transcript)
  ELSE IF ~IsNull(row.summary) /\ Val(row.summary) # << >> THEN Val(row.summary)
  ELSE << >>

\* Lines 32-44: an entry without text is passed over (lines 33-36); a
\* rejection is caught at lines 60-63 and the loop goes on.
BfEmbed ==
  /\ pc["bf"] = "bf_embed"
  /\ UNCHANGED << screen, search, engine, derived, nextEntryId, folders, nextFolderId, settings, envVars, calls >>
  /\ LET id == Head(call["bf"].todo)
     IN  IF id \in DOMAIN entries /\ TextOf(entries[id]) = << >>
         THEN /\ NoFault
              /\ call' = [call EXCEPT !["bf"].todo = Tail(@)]
              /\ BackfillNext(Tail(call["bf"].todo))
              /\ UNCHANGED entries
         ELSE \/ /\ Fault
                 /\ call' = [call EXCEPT !["bf"].todo = Tail(@)]
                 /\ BackfillNext(Tail(call["bf"].todo))
                 /\ UNCHANGED entries
              \/ /\ NoFault
                 /\ entries' = updateJournalEntry(entries, id, "embedding",
                                                  StoredEmbedding(id))
                 /\ pc' = [pc EXCEPT !["bf"] = "bf_topics"]
                 /\ UNCHANGED << call, run >>

\* Lines 47-52.
BfTopics ==
  /\ pc["bf"] = "bf_topics"
  /\ UNCHANGED << screen, search, engine, derived, nextEntryId, folders, nextFolderId, settings, envVars, calls >>
  /\ LET id == Head(call["bf"].todo)
     IN  \/ /\ Fault
            /\ call' = [call EXCEPT !["bf"].todo = Tail(@)]
            /\ BackfillNext(Tail(call["bf"].todo))
            /\ UNCHANGED entries
         \/ /\ NoFault
            /\ entries' = updateJournalEntry(entries, id, "topics", StoredTopics)
            /\ call' = [call EXCEPT !["bf"].todo = Tail(@), !["bf"].processed = @ + 1]
            /\ BackfillNext(Tail(call["bf"].todo))

(***************************************************************************)
(* SearchEngine (searchService).                                           *)
(*                                                                         *)
(* A score is a fraction [num, den] with den > 0; the arithmetic is exact  *)
(* where the code uses doubles.                                            *)
(***************************************************************************)
Rat(n, d) == [num |-> n, den |-> d]
RatLess(a, b) == a.num * b.den < b.num * a.den
RatEq(a, b) == a.num * b.den = b.num * a.den
RatFirst(a, b) == a
RatAdd(a, b) == Rat(a.num * b.den + b.num * a.den, a.den * b.den)
RatMul(a, b) == Rat(a.num * b.num, a.den * b.den)

\* Math.sqrt on the squared norms of the model: the stores that are searched
\* keep vectors of whole length, for which the root is exact.
Sqrt(n) == CHOOSE r \in 0..n : r * r <= n /\ (r + 1) * (r + 1) > n

\* A similarity d / sqrt(n) as a score.
SimValue(s) == Rat(s.d, Sqrt(s.n))

\* DEFAULT_CONFIG, lines 16-22.
SemanticWeight == Rat(6, 10)
KeywordWeight == Rat(4, 10)
MinScore == Rat(1, 10)
DefaultMaxResults == 50
DefaultMode == "hybrid"
SearchModes == {"hybrid", "semantic", "keyword"}

\* The query strings of the model, and String trim and toLowerCase on them.
Queries == {"", "  ", "cat", "Cat", "dog"}
trim(q) == IF q = "  " THEN "" ELSE q
toLowerCase(w) ==
  CASE w = "Cat" -> "cat"
    [] w = "Dog" -> "dog"
    [] OTHER -> w

\* An emptiness test that does not trim the query.
EmptyQueryUntrimmed(q) == q = ""

\* Lines 30, 92 and 192: !query || query.trim().length === 0.
EmptyQuery(q) == q = "" \/ trim(q) = ""

\* The vector generateEmbedding returns for a query.
QueryVector(q) ==
  CASE q = "cat" -> << 1, 0 >>
    [] q = "Cat" -> << 3, 4 >>
    [] OTHER -> << 0, 1 >>

\* LOWER(column) LIKE '%term%': some word of the column is the term once
\* lowered; a NULL column matches nothing.
Like(column, term) ==
  /\ ~IsNull(column)
  /\ \E i \in 1..Len(Val(column)) : toLowerCase(Val(column)[i]) = term

\* The topics column as the text LIKE reads: the words of the stored JSON array.
TopicsText(column) ==
  IF IsNull(column) THEN NULL ELSE Some(JSONParse(Val(column)))

\* A score that adds up the fields that match.
SumScore(row, term) ==
  (IF Like(row.name, term) THEN 4 ELSE 0)
  + (IF Like(row.summary, term) THEN 3 ELSE 0)
  + (IF Like(TopicsText(row.topics), term) THEN 2 ELSE 0)
  + (IF Like(row.transcript, term) THEN 1 ELSE 0)

\* The CASE expression of lines 51-57.
MatchScore(row, term) ==
  IF Like(row.name, term) THEN 4
  ELSE IF Like(row.summary, term) THEN 3
  ELSE IF Like(TopicsText(row.topics), term) THEN 2
  ELSE IF Like(row.transcript, term) THEN 1
  ELSE 0

\* The WHERE clause of lines 59-63.
KeywordMatch(row, term) ==
  \/ Like(row.transcript, term)
  \/ Like(row.summary, term)
  \/ Like(row.name, term)
  \/ Like(TopicsText(row.topics), term)

\* The elements of S in the order of the relation precedes, a set of pairs
\* << a, b >> with a before b.
Ordered(S, precedes) ==
  [p \in 1..Cardinality(S) |->
     CHOOSE a \in S : Cardinality({ b \in S : << b, a >> \in precedes }) = p - 1]


\* The rows left in the order they came in.
Unsorted(rows, field) == rows

\* Array.prototype.sort((a, b) => b[field] - a[field]): descending and stable.
SortDescending(rows, field) ==
  LET Before(j, i) == \/ RatLess(rows[i][field], rows[j][field])
                      \/ RatEq(rows[i][field], rows[j][field]) /\ j < i
      index == Ordered(1..Len(rows), { pair \in (1..Len(rows)) \X (1..Len(rows)) :
                                         Before(pair[1], pair[2]) })
  IN  [p \in 1..Len(rows) |-> rows[index[p]]]

\* ORDER BY created_at DESC; rows of one timestamp come in rowid order.
NewestFirst(store, S) ==
  LET Before(a, b) == \/ store[a].created_at > store[b].created_at
                      \/ store[a].created_at = store[b].created_at /\ a < b
  IN  Ordered(S, { pair \in S \X S : Before(pair[1], pair[2]) })

\* performKeywordSearch, lines 36-78, when the query of line 39 succeeds.
KeywordRows(store, query) ==
  LET searchTerm == toLowerCase(query)
      hits == { id \in DOMAIN store : KeywordMatch(store[id], searchTerm) }
      Before(a, b) ==
        \/ MatchScore(store[a], searchTerm) > MatchScore(store[b], searchTerm)
        \/ /\ MatchScore(store[a], searchTerm) = MatchScore(store[b], searchTerm)
           /\ \/ store[a].created_at > store[b].created_at
              \/ store[a].created_at = store[b].created_at /\ a < b
      results == Ordered(hits, { pair \in hits \X hits : Before(pair[1], pair[2]) })
      maxScore == IF Len(results) > 0
                  THEN MatchScore(store[results[1]], searchTerm) ELSE 1
  IN  [i \in 1..Len(results) |->
         [id |-> results[i],
          score |-> Rat(MatchScore(store[results[i]], searchTerm), maxScore),
          searchType |-> "keyword"]]

\* performSemanticSearch, lines 105-128, when the query of line 105 succeeds.
SemanticRows(store, embedding) ==
  LET ids == NewestFirst(store, { id \in DOMAIN store : ~IsNull(store[id].embedding) })
      results == [i \in 1..Len(ids) |->
                    [id |-> ids[i],
                     score |-> SimValue(cosineSimilarity(
                                 Some(embedding),
                                 Some(JSONParse(Val(store[ids[i]].embedding))))),
                     searchType |-> "semantic"]]
  IN  SortDescending(results, "score")

\* The row of a result list for entry id, if there is one.
RowOf(results, id) == results[CHOOSE i \in 1..Len(results) : results[i].id = id]
Ids(results) == { results[i].id : i \in 1..Len(results) }

\* combineResults, lines 143-181: the Map keeps the semantic rows in their
\* order and then the rows only the keyword leg has, in theirs.
combineResults(semanticResults, keywordResults, semanticWeight, keywordWeight) ==
  LET keywordOnly == SelectSeq(keywordResults,
                               LAMBDA r : r.id \notin Ids(semanticResults))
      merged(r) ==
        IF r.id \in Ids(keywordResults)
        THEN [id |-> r.id,
              semanticScore |-> r.score,
              keywordScore |-> RowOf(keywordResults, r.id).score,
              combinedScore |->
                RatAdd(RatMul(r.score, semanticWeight),
                       RatMul(RowOf(keywordResults, r.id).score, keywordWeight)),
              matchTypes |-> << "semantic", "keyword" >>]
        ELSE [id |-> r.id,
              semanticScore |-> r.score,
              keywordScore |-> Rat(0, 1),
              combinedScore |-> RatMul(r.score, semanticWeight),
              matchTypes |-> << "semantic" >>]
      added(r) ==
        [id |-> r.id,
         semanticScore |-> Rat(0, 1),
         keywordScore |-> r.score,
         combinedScore |-> RatMul(r.score, keywordWeight),
         matchTypes |-> << "keyword" >>]
      combined == [i \in 1..Len(semanticResults) |-> merged(semanticResults[i])]
                    \o [i \in 1..Len(keywordOnly) |-> added(keywordOnly[i])]
  IN  SortDescending(combined, "combinedScore")

\* Lines 203 and 209: a single leg's rows with combinedScore = score.
SingleLeg(results) ==
  [i \in 1..Len(results) |->
     [id |-> results[i].id,
      semanticScore |-> IF results[i].searchType = "semantic"
                        THEN results[i].score ELSE Rat(0, 1),
      keywordScore |-> IF results[i].searchType = "keyword"
                       THEN results[i].score ELSE Rat(0, 1),
      combinedScore |-> results[i].score,
      matchTypes |-> << results[i].searchType >>]]

\* The minScore filter alone, nothing cut off.
FilterOnly(results, minScore, maxResults) ==
  SelectSeq(results, LAMBDA r : ~RatLess(r.combinedScore, minScore))

\* Lines 230-235: the minScore filter, then slice(0, maxResults) unless
\* maxResults is 0.
Limit(results, minScore, maxResults) ==
  LET kept == SelectSeq(results, LAMBDA r : ~RatLess(r.combinedScore, minScore))
  IN  IF maxResults # 0 THEN SubSeq(kept, 1, Min(maxResults, Len(kept))) ELSE kept

\* The legs searchEntries starts in a mode (the switch of lines 199-227).
HasSemanticLeg(mode) == mode \in {"semantic", "hybrid"}
HasKeywordLeg(mode) == mode \in {"keyword", "hybrid"}

\* What performSemanticSearch and performKeywordSearch return from their
\* catch blocks (lines 129-132 and 79-82).
SemanticOnError == << >>
KeywordOnError == << >>

NoSearch ==
  [pc |-> "idle", fn |-> "searchEntries",
   query |-> "", mode |-> DefaultMode, maxResults |-> DefaultMaxResults,
   sem |-> "none", kw |-> "none", embedding |-> NULL,
   semanticResults |-> << >>, keywordResults |-> << >>,
   providerCalls |-> 0, storeQueries |-> 0,
   providerFailed |-> FALSE, storeFailed |-> FALSE,
   result |-> << >>, outcome |-> "none"]

journalVars == << storeVars, envVars, pc, call, run, calls, engine, derived, screen >>

\* The maxResults options a caller passes: none, or 1.
MaxResultsOptions == {DefaultMaxResults, 1}

\* searchEntries(query, {mode, maxResults}) up to its first await: an empty
\* query returns [] at once (line 193); otherwise the legs of the mode start,
\* each running to its own first await.
SearchCall ==
  /\ search.pc = "idle"
  /\ \E query \in Queries, mode \in SearchModes, maxResults \in MaxResultsOptions :
       search' = IF EmptyQuery(query)
                 THEN [NoSearch EXCEPT !.pc = "done", !.query = query, !.mode = mode,
                                       !.maxResults = maxResults,
                                       !.outcome = "resolved"]
                 ELSE [NoSearch EXCEPT !.pc = "running", !.query = query, !.mode = mode,
                                       !.maxResults = maxResults,
                                       !.sem = IF HasSemanticLeg(mode)
                                               THEN "embed" ELSE "none",
                                       !.kw = IF HasKeywordLeg(mode)
                                              THEN "query" ELSE "none"]
  /\ NoFault
  /\ UNCHANGED journalVars

\* performSemanticSearch line 100: generateEmbedding(query) settles; a
\* rejection goes to the catch block of line 129.
SemEmbed ==
  /\ search.pc = "running"
  /\ search.sem = "embed"
  /\ \/ /\ Fault
        /\ search' = [search EXCEPT !.providerCalls = @ + 1,
                                    !.providerFailed = TRUE,
                                    !.semanticResults = SemanticOnError,
                                    !.sem = "done"]
     \/ /\ NoFault
        /\ search' = [search EXCEPT !.providerCalls = @ + 1,
                                    !.embedding = Some(Vec(QueryVector(search.query))),
                                    !.sem = "query"]
  /\ UNCHANGED journalVars

\* Lines 105-128: the SELECT settles and the rows are scored and sorted.
SemQuery ==
  /\ search.pc = "running"
  /\ search.sem = "query"
  /\ \/ /\ Fault
        /\ search' = [search EXCEPT !.storeQueries = @ + 1,
                                    !.storeFailed = TRUE,
                                    !.semanticResults = SemanticOnError,
                                    !.sem = "done"]
     \/ /\ NoFault
        /\ search' = [search EXCEPT !.storeQueries = @ + 1,
                                    !.semanticResults =
                                       SemanticRows(entries, Val(search.embedding)),
                                    !.sem = "done"]
  /\ UNCHANGED journalVars

\* performKeywordSearch lines 39-78: the SELECT settles.
KwQuery ==
  /\ search.pc = "running"
  /\ search.kw = "query"
  /\ \/ /\ Fault
        /\ search' = [search EXCEPT !.storeQueries = @ + 1,
                                    !.storeFailed = TRUE,
                                    !.keywordResults = KeywordOnError,
                                    !.kw = "done"]
     \/ /\ NoFault
        /\ search' = [search EXCEPT !.storeQueries = @ + 1,
                                    !.keywordResults = KeywordRows(entries, search.query),
                                    !.kw = "done"]
  /\ UNCHANGED journalVars

\* performKeywordSearch(query) called on its own, up to its first await: an
\* empty query returns [] at once (lines 30-32), before the store is used.
KeywordCall ==
  /\ search.pc = "idle"
  /\ \E query \in Queries :
       search' = IF EmptyQuery(query)
                 THEN [NoSearch EXCEPT !.pc = "done", !.fn = "performKeywordSearch",
                                       !.query = query, !.mode = "keyword",
                                       !.outcome = "resolved"]
                 ELSE [NoSearch EXCEPT !.pc = "running", !.fn = "performKeywordSearch",
                                       !.query = query, !.mode = "keyword",
                                       !.kw = "query"]
  /\ NoFault
  /\ UNCHANGED journalVars

\* The query embeddings a caller of performSemanticSearch passes: none, or
\* one computed beforehand.
QueryEmbeddings == {NULL, Some(Vec(<< 1, 0 >>))}

\* performSemanticSearch(query, queryEmbedding) called on its own, up to its
\* first await: an empty query returns [] at once (lines 92-94); a given
\* embedding is used as it is (lines 98-101).
SemanticCall ==
  /\ search.pc = "idle"
  /\ \E query \in Queries, queryEmbedding \in QueryEmbeddings :
       search' = IF EmptyQuery(query)
                 THEN [NoSearch EXCEPT !.pc = "done", !.fn = "performSemanticSearch",
                                       !.query = query, !.mode = "semantic",
                                       !.outcome = "resolved"]
                 ELSE [NoSearch EXCEPT !.pc = "running", !.fn = "performSemanticSearch",
                                       !.query = query, !.mode = "semantic",
                                       !.embedding = queryEmbedding,
                                       !.sem = IF IsNull(queryEmbedding)
                                               THEN "embed" ELSE "query"]
  /\ NoFault
  /\ UNCHANGED journalVars

\* The return of a leg called on its own: its rows (lines 74-78, 128), or the
\* [] of its catch block (lines 79-82, 129-132).
LegReturn ==
  /\ search.pc = "running"
  /\ search.fn # "searchEntries"
  /\ search.sem \in {"none", "done"}
  /\ search.kw \in {"none", "done"}
  /\ search' = [search EXCEPT !.result = IF search.fn = "performKeywordSearch"
                                         THEN search.keywordResults
                                         ELSE search.semanticResults,
                               !.pc = "done",
                               !.outcome = "resolved"]
  /\ NoFault
  /\ UNCHANGED journalVars

\* searchEntries after its await (lines 203-237): the legs have settled, and
\* neither rejects, so the catch block of line 238 is not entered.
SearchReturn ==
  /\ search.pc = "running"
  /\ search.fn = "searchEntries"
  /\ search.sem \in {"none", "done"}
  /\ search.kw \in {"none", "done"}
  /\ LET results ==
           CASE search.mode = "semantic" -> SingleLeg(search.semanticResults)
             [] search.mode = "keyword" -> SingleLeg(search.keywordResults)
             [] OTHER -> combineResults(search.semanticResults, search.keywordResults,
                                        SemanticWeight, KeywordWeight)
     IN  search' = [search EXCEPT !.result = Limit(results, MinScore, search.maxResults),
                                  !.pc = "done",
                                  !.outcome = "resolved"]
  /\ NoFault
  /\ UNCHANGED journalVars

(***************************************************************************)
(* The environment: the clock, and the user renaming a cluster folder      *)
(* (renameClusterFolder, clusteringService.js lines 142-147).              *)
(***************************************************************************)
\* A task that has not started yet: what the user does is followed while one
\* is left to see it.
TaskLeft == \E p \in {"bg", "bf"} : pc[p] = "idle"

\* Time that passes before the first clustering is recorded moves every
\* timestamp alike, so the clock is followed from then on, between runs.
Tick ==
  /\ now < MaxTime
  /\ ~IsNull(settings["last_clustering_date"])
  /\ \A p \in Tasks : ~InFlight(p)
  /\ TaskLeft
  /\ now' = now + 1
  /\ UNCHANGED << screen, search, engine, derived, storeVars, provider, pc, call, run, calls, faults >>

\* A rename touches a column no task reads, so it commutes with every step of
\* a run; it is taken while no run is in flight, of one folder at a time.
renameClusterFolder ==
  /\ \A p \in Tasks : ~InFlight(p)
  /\ \A g \in folders : g.name # "Renamed"
  /\ \E f \in folders :
       /\ f.type = "cluster"
       /\ f.name # "Renamed"
       /\ folders' = (folders \ {f}) \cup {[f EXCEPT !.name = "Renamed"]}
  /\ UNCHANGED << screen, search, engine, derived, entries, nextEntryId, nextFolderId, settings, envVars, pc, call,
                  run, calls, faults >>


(***************************************************************************)
(* Specifications.                                                         *)
(***************************************************************************)
\* The vector the embedding provider returns for the text of entry id: entries
\* 1..3 point one way, the later ones another.
VectorFor(id) ==
  CASE id = 1 -> << 2, 0 >>
    [] id = 2 -> << 2, 1 >>
    [] id = 3 -> << 3, 1 >>
    [] id = 4 -> << 0, 2 >>
    [] id = 5 -> << 1, 2 >>
    [] OTHER  -> << 1, 3 >>

\* A rule folder the user made.
RuleFolder ==
  [SmartFolderRow(1, "Recent", "rule", NULL) EXCEPT !.rules = Some("last7days")]

\* A manual folder the user made, holding entry 1; its id is the one the
\* first cluster folder gets in smart_folders.
TripsFolder == [id |-> 2, name |-> "Trips"]
TripsMembership == [folder_id |-> 2, entry_id |-> 1, folder_type |-> "manual"]

\* clusterEmbeddings not called on its own.
NoEngine == [pc |-> "idle", entries |-> << >>, k |-> DefaultClusterCount,
             draws |-> 0, init |-> << >>, trace |-> << >>, centroidTrace |-> << >>,
             out |-> << >>]

\* No conversation message and no folder membership; foreign keys as SQLite
\* has them unless a PRAGMA turns them on.
NoDerived == [foreignKeys |-> FALSE, messages |-> {}, nextMessageId |-> 1,
              manual_folders |-> {}, folder_entries |-> {}, inserted |-> 0]

\* HomeScreen before anything is recorded: no current entry (line 32), no
\* recording being processed, nothing processed yet.
NoScreen == [pc |-> "idle", currentEntryId |-> NULL, uri |-> NULL, entryId |-> NULL,
             created |-> FALSE, transcript |-> NULL, summary |-> NULL,
             recordings |-> 0, processed |-> << >>, enriching |-> << >>]

IdleTasks ==
  /\ pc = [p \in Tasks |-> "idle"]
  /\ call = [p \in Tasks |-> NoCall]
  /\ run = [p \in Tasks |-> NoRun]
  /\ calls = [p \in {"bf", "direct"} |-> 0]
  /\ faults = 0
  /\ search = NoSearch
  /\ screen = NoScreen

\* A store of InitEntries saved entries, all but the last of them enriched,
\* that was never clustered; cluster_threshold is '1'.
Init ==
  /\ entries = [id \in 1..InitEntries |->
                  [NewEntry(0) EXCEPT
                     !.embedding = IF id < InitEntries
                                   THEN Some(JSONStringify(Vec(VectorFor(id))))
                                   ELSE NULL,
                     !.topics = IF id < InitEntries THEN StoredTopics ELSE NULL]]
  /\ nextEntryId = InitEntries + 1
  /\ folders = {RuleFolder}
  /\ nextFolderId = 2
  /\ settings = [last_clustering_date |-> NULL,
                 cluster_threshold |-> Some(NumberString(1)),
                 cluster_count |-> NULL]
  /\ now = 0
  /\ provider = [id \in 1..(InitEntries + 1) |-> VectorFor(id)]
  /\ IdleTasks
  /\ derived = NoDerived
  /\ engine = NoEngine

\* The steps of regenerateClusters made by task p.
RunStep(p) ==
  \/ RFetch(p)
  \/ RWrite(p)
  \/ RFolders(p)
  \/ RDelete(p)
  \/ RCreate(p)
  \/ RDate(p)

Next ==
  \/ Tick
  \/ Save
  \/ BgEmbed
  \/ BgTopics
  \/ StSettings("bg")
  \/ StFetch("bg")
  \/ StartBackfill
  \/ BfEmbed
  \/ BfTopics
  \/ (TaskLeft /\ renameClusterFolder)
  \/ RunStep("bg")
  \/ RunStep("bf")

Spec == Init /\ [][Next]_vars

\* The enrichment task and the backfill script up to their calls of
\* regenerateClusters: the steps that decide whether and when a run is
\* called.  No run writes before it is called, so last_clustering_date stays
\* unset here.
NextTrigger ==
  \/ Save
  \/ BgEmbed
  \/ BgTopics
  \/ StSettings("bg")
  \/ StFetch("bg")
  \/ StartBackfill
  \/ BfEmbed
  \/ BfTopics

SpecTrigger == Init /\ [][NextTrigger]_vars

\* A store of InitEntries enriched entries.
EnrichedStore ==
  [id \in 1..InitEntries |->
     [NewEntry(0) EXCEPT !.embedding = Some(JSONStringify(Vec(VectorFor(id)))),
                         !.topics = StoredTopics]]

\* The assignments of a regenerateClusters() call on EnrichedStore, for one
\* draw of the initial centroids.
EarlierAssign ==
  LET rows == getEntriesForClustering(EnrichedStore)
      n == Len(rows)
      k == EffectiveK(DefaultClusterCount, n)
  IN  clusterEmbeddings([i \in 1..n |-> [id |-> rows[i].id,
                                         embedding |-> Val(rows[i].embedding)]],
                        k, [j \in 1..k |-> (j - 1) * (n \div k)])

\* One save and its background enrichment, through to the end of the run it
\* triggers, on EnrichedStore: never clustered, or as a regenerateClusters()
\* call that failed at its last write (line 87) has left it, with cluster ids
\* and cluster folders but no last_clustering_date.
InitEnrich ==
  /\ \E earlier \in BOOLEAN :
       LET keys == SurvivingKeys(EarlierAssign)
       IN  IF earlier
           THEN /\ entries = [id \in 1..InitEntries |->
                                [EnrichedStore[id] EXCEPT
                                   !.cluster_id =
                                      Some(EarlierAssign[id].clusterId)]]
                /\ folders = {RuleFolder} \cup
                               { SmartFolderRow(1 + i, "Label", "cluster", Some(keys[i])) :
                                   i \in 1..Len(keys) }
                /\ nextFolderId = 2 + Len(keys)
           ELSE /\ entries = EnrichedStore
                /\ folders = {RuleFolder}
                /\ nextFolderId = 2
  /\ nextEntryId = InitEntries + 1
  /\ settings = [last_clustering_date |-> NULL,
                 cluster_threshold |-> Some(NumberString(1)),
                 cluster_count |-> NULL]
  /\ now = 0
  /\ provider = [id \in 1..(InitEntries + 1) |-> VectorFor(id)]
  /\ IdleTasks
  /\ derived = NoDerived
  /\ engine = NoEngine

NextEnrich ==
  \/ Save
  \/ BgEmbed
  \/ BgTopics
  \/ StSettings("bg")
  \/ StFetch("bg")
  \/ RunStep("bg")

SpecEnrich == InitEnrich /\ [][NextEnrich]_vars

\* backfillEmbeddings on a store whose first InitEntries - 1 entries are
\* enriched and were clustered once (one cluster, one folder, the date
\* written); two later entries were saved but not enriched, and the last one
\* was created but never got a transcript or summary.
InitBackfill ==
  /\ entries = [id \in 1..(InitEntries + 2) |->
                  IF id < InitEntries
                  THEN [NewEntry(0) EXCEPT
                          !.embedding = Some(JSONStringify(Vec(VectorFor(id)))),
                          !.topics = StoredTopics,
                          !.cluster_id = Some(0)]
                  ELSE IF id < InitEntries + 2
                  THEN NewEntry(0)
                  ELSE [NewEntry(0) EXCEPT !.transcript = NULL, !.summary = NULL]]
  /\ nextEntryId = InitEntries + 3
  /\ folders = {RuleFolder, SmartFolderRow(2, "Label", "cluster", Some(0))}
  /\ nextFolderId = 3
  /\ settings = [last_clustering_date |-> Some(toISOString(0)),
                 cluster_threshold |-> NULL,
                 cluster_count |-> NULL]
  /\ now = 0
  /\ provider = [id \in 1..(InitEntries + 2) |-> VectorFor(id)]
  /\ IdleTasks
  /\ derived = NoDerived
  /\ engine = NoEngine

NextBackfill ==
  \/ StartBackfill
  \/ BfEmbed
  \/ BfTopics
  \/ RunStep("bf")

SpecBackfill == InitBackfill /\ [][NextBackfill]_vars

\* The user deletes an entry from the list (JournalListScreen
\* handleDeleteEntry); ids are AUTOINCREMENT and not given out again, so the
\* entries deleted so far are the ids below nextEntryId that have no row.
DeleteEntry ==
  /\ (nextEntryId - 1) - Cardinality(DOMAIN entries) < MaxDeletes
  /\ \E id \in DOMAIN entries :
       /\ entries' = deleteJournalEntry(entries, id)
       /\ derived' = CascadeDelete(derived, id)
  /\ UNCHANGED << screen, search, engine, nextEntryId, folders, nextFolderId, settings,
                  envVars, pc, call, run, calls, faults >>

\* addConversationMessage(entryId, role, content), as handleStopRecording
\* calls it in conversational mode (HomeScreen lines 153 and 165).
AddMessage ==
  /\ derived.nextMessageId <= MaxDerived
  /\ \E entryId \in DOMAIN entries :
       derived' = [derived EXCEPT
                     !.messages = @ \cup {[id |-> derived.nextMessageId,
                                           entry_id |-> entryId]},
                     !.nextMessageId = @ + 1]
  /\ UNCHANGED << screen, storeVars, envVars, pc, call, run, calls, faults, search, engine >>

\* addEntryToFolder(folderId, entryId, 'manual') for manual folder 1: the row
\* is inserted unless it exists (part_004 lines 320-333).
AddEntryToFolder ==
  /\ derived.inserted < MaxDerived
  /\ \E folderId \in {1}, entryId \in DOMAIN entries :
       LET row == [folder_id |-> folderId, entry_id |-> entryId, folder_type |-> "manual"]
       IN  derived' = [derived EXCEPT
                         !.folder_entries = @ \cup {row},
                         !.inserted = IF row \in derived.folder_entries THEN @ ELSE @ + 1]
  /\ UNCHANGED << screen, storeVars, envVars, pc, call, run, calls, faults, search, engine >>

\* Entries with their conversations and folder memberships, and deletions;
\* the SQLite build enforces foreign keys or does not.
InitDelete ==
  /\ entries = [id \in 1..InitEntries |-> NewEntry(0)]
  /\ nextEntryId = InitEntries + 1
  /\ folders = {RuleFolder}
  /\ nextFolderId = 2
  /\ settings = [last_clustering_date |-> NULL, cluster_threshold |-> NULL,
                 cluster_count |-> NULL]
  /\ now = 0
  /\ provider = [id \in 1..InitEntries |-> VectorFor(id)]
  /\ IdleTasks
  /\ engine = NoEngine
  /\ \E enforced \in BOOLEAN : derived = [NoDerived EXCEPT !.foreignKeys = enforced]

NextDelete ==
  \/ AddMessage
  \/ AddEntryToFolder
  \/ DeleteEntry

SpecDelete == InitDelete /\ [][NextDelete]_vars

(***************************************************************************)
(* HomeScreen.handleStopRecording in solo mode (the mode the screen starts *)
(* in), one awaited call per step; any of them may reject, and the catch   *)
(* block of lines 171-176 then ends the call.                              *)
(***************************************************************************)
\* The file of the n-th recording, as stopRecording returns its uri.
AudioFile(n) == [file |-> n]

\* What transcribeAudio hears in a file, and generateSummary makes of it.
transcribeAudio(uri) == << "said", uri.file >>
generateSummary(transcript) == << "summary" >> \o transcript

\* createJournalEntry(mode, audioPath): the inserted row.
createJournalEntry(store, id, mode, audioPath) ==
  [i \in DOMAIN store \cup {id} |->
     IF i = id
     THEN [transcript |-> NULL, summary |-> NULL, name |-> NULL, embedding |-> NULL,
           topics |-> NULL, cluster_id |-> NULL, created_at |-> now,
           mode |-> mode, audio_path |-> Some(audioPath)]
     ELSE store[i]]

\* Lines 171-176: the catch block sets the recording state and the status
\* message, and nothing else.
CatchProcessing ==
  /\ Fault
  /\ screen' = [screen EXCEPT !.pc = "idle"]
  /\ UNCHANGED << entries, nextEntryId >>

\* Lines 110-118: stopRecording(), setAudioUri, and the read of currentEntryId.
RecStop ==
  /\ screen.pc = "idle"
  /\ screen.recordings < MaxRecordings
  /\ UNCHANGED << search, engine, derived, folders, nextFolderId, settings, envVars,
                  pc, call, run, calls >>
  /\ \/ /\ Fault
        /\ screen' = [screen EXCEPT !.recordings = @ + 1]
        /\ UNCHANGED << entries, nextEntryId >>
     \/ /\ NoFault
        /\ screen' = [screen EXCEPT
                        !.recordings = @ + 1,
                        !.uri = Some(AudioFile(screen.recordings + 1)),
                        !.entryId = screen.currentEntryId,
                        !.created = FALSE,
                        !.transcript = NULL,
                        !.summary = NULL,
                        !.pc = IF IsNull(screen.currentEntryId) THEN "create"
                               ELSE "transcribe"]
        /\ UNCHANGED << entries, nextEntryId >>

\* Lines 119-122: createJournalEntry(mode, uri) and setCurrentEntryId.
RecCreate ==
  /\ screen.pc = "create"
  /\ UNCHANGED << search, engine, derived, folders, nextFolderId, settings, envVars,
                  pc, call, run, calls >>
  /\ \/ CatchProcessing
     \/ /\ NoFault
        /\ entries' = createJournalEntry(entries, nextEntryId, "solo", Val(screen.uri))
        /\ nextEntryId' = nextEntryId + 1
        /\ screen' = [screen EXCEPT !.entryId = Some(nextEntryId),
                                    !.currentEntryId = Some(nextEntryId),
                                    !.created = TRUE,
                                    !.pc = "transcribe"]

\* Line 126: transcribeAudio(uri).
RecTranscribe ==
  /\ screen.pc = "transcribe"
  /\ UNCHANGED << search, engine, derived, folders, nextFolderId, settings, envVars,
                  pc, call, run, calls >>
  /\ \/ CatchProcessing
     \/ /\ NoFault
        /\ screen' = [screen EXCEPT !.transcript = Some(transcribeAudio(Val(screen.uri))),
                                    !.pc = "save"]
        /\ UNCHANGED << entries, nextEntryId >>

\* Lines 130-132: updateJournalEntry(entryId, { transcript }).
RecSaveTranscript ==
  /\ screen.pc = "save"
  /\ UNCHANGED << search, engine, derived, folders, nextFolderId, settings, envVars,
                  pc, call, run, calls >>
  /\ \/ CatchProcessing
     \/ /\ NoFault
        /\ entries' = updateJournalEntry(entries, Val(screen.entryId), "transcript",
                                         screen.transcript)
        /\ screen' = [screen EXCEPT !.pc = "summary"]
        /\ UNCHANGED nextEntryId

\* Line 135: generateSummary(transcript).
RecSummary ==
  /\ screen.pc = "summary"
  /\ UNCHANGED << search, engine, derived, folders, nextFolderId, settings, envVars,
                  pc, call, run, calls >>
  /\ \/ CatchProcessing
     \/ /\ NoFault
        /\ screen' = [screen EXCEPT
                        !.summary = Some(generateSummary(Val(screen.transcript))),
                        !.pc = "saveSummary"]
        /\ UNCHANGED << entries, nextEntryId >>

\* Lines 136-150: updateJournalEntry(entryId, { summary }); then
\* generateEmbeddingAndTopics is started without being awaited, the current
\* entry id and the audio uri are reset and the name modal is shown.
RecSaveSummary ==
  /\ screen.pc = "saveSummary"
  /\ UNCHANGED << search, engine, derived, folders, nextFolderId, settings, envVars,
                  pc, call, run, calls >>
  /\ \/ CatchProcessing
     \/ /\ NoFault
        /\ entries' = updateJournalEntry(entries, Val(screen.entryId), "summary",
                                         screen.summary)
        /\ screen' = [screen EXCEPT
                        !.pc = "idle",
                        !.currentEntryId = NULL,
                        !.uri = NULL,
                        !.enriching = Append(@, Val(screen.entryId)),
                        !.processed = Append(@, [uri |-> Val(screen.uri),
                                                 entryId |-> Val(screen.entryId),
                                                 created |-> screen.created])]
        /\ UNCHANGED nextEntryId

\* An empty journal or one entry recorded earlier, and the clock at 0 or 1.
InitRecord ==
  /\ \E n \in 0..1 :
       /\ entries = [id \in 1..n |->
                       [NewEntry(0) EXCEPT !.embedding = Some(JSONStringify(Vec(VectorFor(id)))),
                                           !.topics = StoredTopics]]
       /\ nextEntryId = n + 1
  /\ now \in 0..MaxTime
  /\ provider = << >>
  /\ folders = {RuleFolder}
  /\ nextFolderId = 2
  /\ settings = [last_clustering_date |-> NULL, cluster_threshold |-> NULL,
                 cluster_count |-> NULL]
  /\ IdleTasks
  /\ engine = NoEngine
  /\ derived = NoDerived

NextRecord ==
  \/ RecStop
  \/ RecCreate
  \/ RecTranscribe
  \/ RecSaveTranscript
  \/ RecSummary
  \/ RecSaveSummary

SpecRecord == InitRecord /\ [][NextRecord]_vars

\* A save with its enrichment, a backfill, and the regenerations they call,
\* interleaved with one another and with deletions, on the store of Init.
InitStore ==
  /\ entries = [id \in 1..InitEntries |->
                  [NewEntry(0) EXCEPT
                     !.embedding = IF id < InitEntries
                                   THEN Some(JSONStringify(Vec(VectorFor(id))))
                                   ELSE NULL,
                     !.topics = IF id < InitEntries THEN StoredTopics ELSE NULL]]
  /\ nextEntryId = InitEntries + 1
  /\ folders = {RuleFolder}
  /\ nextFolderId = 2
  /\ settings = [last_clustering_date |-> NULL,
                 cluster_threshold |-> Some(NumberString(1)),
                 cluster_count |-> NULL]
  /\ now = 0
  /\ provider = [id \in 1..(InitEntries + 1) |-> VectorFor(id)]
  /\ IdleTasks
  /\ derived = NoDerived
  /\ engine = NoEngine

NextStore ==
  \/ Save
  \/ BgEmbed
  \/ BgTopics
  \/ StSettings("bg")
  \/ StFetch("bg")
  \/ RunStep("bg")
  \/ StartBackfill
  \/ BfEmbed
  \/ BfTopics
  \/ RunStep("bf")
  \/ DeleteEntry

SpecStore == InitStore /\ [][NextStore]_vars

\* regenerateClusters up to its call of the engine, for every number of
\* embedded entries up to InitEntries + 2, with the cluster count given as
\* argument, as the cluster_count setting, or left to the default.
CountArgs == {NULL, Some(1), Some(2), Some(7)}
CountSettings == {NULL, Some(NumberString(1)), Some(NumberString(3)),
                  Some(NumberString(7))}

InitCount ==
  /\ \E n \in 0..(InitEntries + 2), setting \in CountSettings :
       /\ entries = [id \in 1..n |->
                       [NewEntry(0) EXCEPT
                          !.embedding = Some(JSONStringify(Vec(VectorFor(id)))),
                          !.topics = StoredTopics]]
       /\ nextEntryId = n + 1
       /\ settings = [last_clustering_date |-> NULL, cluster_threshold |-> NULL,
                      cluster_count |-> setting]
  /\ provider = [id \in 1..(InitEntries + 2) |-> VectorFor(id)]
  /\ folders = {RuleFolder}
  /\ nextFolderId = 2
  /\ now = 0
  /\ IdleTasks
  /\ engine = NoEngine
  /\ derived = NoDerived

CountCall ==
  /\ pc["direct"] = "idle"
  /\ \E arg \in CountArgs : BeginRun("direct", arg)
  /\ calls' = [calls EXCEPT !["direct"] = @ + 1]
  /\ UNCHANGED << screen, search, engine, derived, storeVars, envVars, call, faults >>

NextCount ==
  \/ CountCall
  \/ RFetch("direct")

SpecCount == InitCount /\ [][NextCount]_vars

\* Stores on which regenerateClusters is called directly.  Six enriched
\* entries in two groups of three (entries 1..3 and 4..6), each group close in
\* direction and the two groups at a right angle or nearly so: the members all
\* different, some equal, all equal.  A store of three entries one way and one
\* another.  And a store of two enriched entries.
E2EConfigs ==
  { << << 5, 0 >>, << 5, 1 >>, << 4, 1 >>, << 0, 5 >>, << 1, 5 >>, << 1, 4 >> >>,
    << << 1, 0 >>, << 1, 0 >>, << 2, 1 >>, << 0, 1 >>, << 0, 2 >>, << 1, 3 >> >>,
    << << 1, 0 >>, << 1, 0 >>, << 1, 0 >>, << 0, 1 >>, << 0, 1 >>, << 0, 1 >> >>,
    << << 2, 0 >>, << 2, 1 >>, << 3, 1 >>, << 0, 2 >> >>,
    << << 1, 0 >>, << 0, 1 >> >> }

InitE2E ==
  /\ \E cfg \in E2EConfigs :
       /\ provider = cfg
       /\ entries = [id \in 1..Len(cfg) |->
                       [NewEntry(0) EXCEPT
                          !.embedding = Some(JSONStringify(Vec(cfg[id]))),
                          !.topics = StoredTopics]]
       /\ nextEntryId = Len(cfg) + 1
  /\ folders = {RuleFolder}
  /\ nextFolderId = 2
  /\ settings = [last_clustering_date |-> NULL, cluster_threshold |-> NULL,
                 cluster_count |-> NULL]
  /\ now = 0
  /\ IdleTasks
  /\ derived = [NoDerived EXCEPT !.manual_folders = {TripsFolder},
                                 !.folder_entries = {TripsMembership}]
  /\ engine = NoEngine

NextE2E ==
  \/ DirectCall
  \/ RunStep("direct")
  \/ (calls["direct"] < MaxDirectCalls /\ renameClusterFolder)

SpecE2E == InitE2E /\ [][NextE2E]_vars

\* The stores that are searched.  Entry 1 has the query word in its name,
\* entry 2 in summary and transcript, entry 3 (not enriched) in its transcript
\* only, entry 4 in its topics only.
SearchRow(name, summary, transcript, topics, embedding, t) ==
  [transcript |-> Some(transcript), summary |-> Some(summary), name |-> name,
   embedding |-> IF IsNull(embedding) THEN NULL
                 ELSE Some(JSONStringify(Vec(Val(embedding)))),
   topics |-> IF IsNull(topics) THEN NULL ELSE Some(JSONStringify(Val(topics))),
   cluster_id |-> NULL, created_at |-> t]

SearchStores ==
  { << SearchRow(Some(<< "Cat" >>), << "walk" >>, << "walk", "dog" >>,
                 Some(<< "pets" >>), Some(<< 3, 4 >>), 1),
       SearchRow(NULL, << "cat" >>, << "cat", "nap" >>,
                 Some(<< "pets" >>), Some(<< 4, 3 >>), 2),
       SearchRow(NULL, << "work" >>, << "the", "cat" >>, NULL, NULL, 3),
       SearchRow(NULL, << "work" >>, << "plan" >>,
                 Some(<< "cat", "dog" >>), Some(<< 0, 1 >>), 4) >>,
    << SearchRow(NULL, << "dog" >>, << "dog" >>, NULL, NULL, 1),
       SearchRow(Some(<< "Dog" >>), << "dog" >>, << "dog" >>, NULL, NULL, 1) >> }

InitSearch ==
  /\ \E store \in SearchStores :
       /\ entries = store
       /\ nextEntryId = Len(store) + 1
       /\ provider = [id \in 1..Len(store) |-> << 0, 1 >>]
  /\ folders = {RuleFolder}
  /\ nextFolderId = 2
  /\ settings = [last_clustering_date |-> NULL, cluster_threshold |-> NULL,
                 cluster_count |-> NULL]
  /\ now = 0
  /\ IdleTasks
  /\ derived = NoDerived
  /\ engine = NoEngine

NextSearch ==
  \/ SearchCall
  \/ SemEmbed
  \/ SemQuery
  \/ KwQuery
  \/ SearchReturn
  \/ KeywordCall
  \/ SemanticCall
  \/ LegReturn

SpecSearch == InitSearch /\ [][NextSearch]_vars

(***************************************************************************)
(* clusterEmbeddings called on its own, on every list of at most MaxRows   *)
(* entries and every k up to MaxK.                                         *)
(***************************************************************************)
EngineVectors == { << 1, 0 >>, << 0, 1 >>, << 1, 1 >>, << 0, 0 >> }

\* The lists of entries {id, embedding} handed to clusterEmbeddings.
EngineEntries ==
  UNION { { [i \in 1..n |-> [id |-> 2 * i, embedding |-> Vec(vs[i])]] :
              vs \in [1..n -> EngineVectors] } : n \in 0..MaxRows }

InitKMeans ==
  /\ entries = << >>
  /\ nextEntryId = 1
  /\ provider = << >>
  /\ folders = {RuleFolder}
  /\ nextFolderId = 2
  /\ settings = [last_clustering_date |-> NULL, cluster_threshold |-> NULL,
                 cluster_count |-> NULL]
  /\ now = 0
  /\ IdleTasks
  /\ derived = NoDerived
  /\ \E rows \in EngineEntries, k \in 1..MaxK :
       engine = [NoEngine EXCEPT !.entries = rows, !.k = k]

\* clusterEmbeddings(entries, k): lines 77-80 return before anything is
\* drawn; otherwise the loop of lines 88-95 draws k distinct indices.
ClusterCall ==
  /\ engine.pc = "idle"
  /\ \E init \in IF Len(engine.entries) < engine.k
                  THEN {<< >>}
                  ELSE InitialIndices(Len(engine.entries), engine.k) :
       engine' = [engine EXCEPT !.pc = "done",
                                !.draws = Len(init),
                                !.init = init,
                                !.trace = IF Len(engine.entries) < engine.k
                                          THEN << >>
                                          ELSE refinement(engine.entries, engine.k,
                                                          init).trace,
                                !.centroidTrace =
                                   IF Len(engine.entries) < engine.k
                                   THEN << >>
                                   ELSE refinement(engine.entries, engine.k,
                                                   init).centroidTrace,
                                !.out = clusterEmbeddings(engine.entries, engine.k, init)]
  /\ UNCHANGED << screen, storeVars, envVars, pc, call, run, calls, faults, search, derived >>

NextKMeans == ClusterCall

SpecKMeans == InitKMeans /\ [][NextKMeans]_vars

(***************************************************************************)
(* cosineSimilarity called on its own, on every pair of arguments that are *)
(* null or a vector of at most MaxDim numbers.                             *)
(***************************************************************************)
CosineArguments ==
  {NULL} \cup { Some(Vec(v)) : v \in UNION { [1..n -> {-1, 0, 1, 2}] : n \in 0..MaxDim } }

InitCosine ==
  /\ entries = << >>
  /\ nextEntryId = 1
  /\ provider = << >>
  /\ folders = {RuleFolder}
  /\ nextFolderId = 2
  /\ settings = [last_clustering_date |-> NULL, cluster_threshold |-> NULL,
                 cluster_count |-> NULL]
  /\ now = 0
  /\ IdleTasks
  /\ derived = NoDerived
  /\ \E a \in CosineArguments, b \in CosineArguments :
       engine = [pc |-> "idle", a |-> a, b |-> b, out |-> NULL, outcome |-> "none"]

\* cosineSimilarity(a, b), lines 50-67: no statement of it can throw on null
\* or array arguments, so the call returns.
CosineCall ==
  /\ engine.pc = "idle"
  /\ engine' = [engine EXCEPT !.pc = "done",
                              !.out = Some(cosineSimilarity(engine.a, engine.b)),
                              !.outcome = "returned"]
  /\ UNCHANGED << screen, storeVars, envVars, pc, call, run, calls, faults, search, derived >>

SpecCosine == InitCosine /\ [][CosineCall]_vars

(***************************************************************************)
(* Properties.                                                             *)
(***************************************************************************)
Embedded == { id \in DOMAIN entries : ~IsNull(entries[id].embedding) }
ClusterFolders == { f \in folders : f.type = "cluster" }
FolderIds(fs) == { f.id : f \in fs }
AssignedClusters(p) == { run[p].assign[i].clusterId : i \in 1..Len(run[p].assign) }
CreatedFor(p, c) == { i \in 1..Len(run[p].created) : run[p].created[i].cluster_id = c }
FinishedOk(p) == pc[p] = "done" /\ run[p].outcome = "ok" /\ ~IsNull(run[p].n)

\* C1: at most one invocation of regenerateClusters is in flight at any time.
C1_AtMostOneRunInFlight ==
  Cardinality({ p \in Tasks : InFlight(p) }) <= 1

\* What holds of a run that has settled after a failure.
C2_FailedRunState ==
  \A p \in Tasks :
    (pc[p] = "done" /\ run[p].error) =>
       /\ run[p].outcome = "rejected"
       /\ call[p].outcome = "rejected"
       /\ ~run[p].setDate
       /\ settings["last_clustering_date"] = run[p].startDate

\* The only step that changes last_clustering_date.
C2_DateWrittenLast ==
  settings'["last_clustering_date"] # settings["last_clustering_date"] =>
    \E p \in Tasks :
      /\ pc[p] = "r_date"
      /\ pc'[p] = "done"
      /\ run'[p].outcome = "ok"
      /\ ~run[p].error
      /\ run[p].writes = { run[p].assign[i].entryId : i \in 1..Len(run[p].assign) }
      /\ run[p].del = << >>
      /\ Len(run[p].created) = Len(run[p].keys)

\* C2: a run in which an awaited step failed settles rejected, and when it has
\* settled last_clustering_date has the value it had when the run was called;
\* last_clustering_date changes only in the last step of a run that has
\* written every assignment, deleted every old folder and created every
\* folder without a failure.  (Runs that no other run overlaps.)
C2_FailureRethrownDateKept == [] C2_FailedRunState /\ [][C2_DateWrittenLast]_vars

\* A run failed after creating one folder and before creating the next.
C2_Witness ==
  /\ pc["direct"] = "done"
  /\ run["direct"].error
  /\ Len(run["direct"].created) = 1
  /\ Len(run["direct"].keys) = 2
  /\ IsNull(settings["last_clustering_date"])

\* C3: with last_clustering_date set, shouldTriggerClustering returns true
\* exactly when the number of embedded entries created strictly after that
\* date is at least cluster_threshold.
C3_TriggerCountsEntriesAfterDate ==
  [][\A p \in Tasks :
       ( /\ pc[p] = "st_fetch"
         /\ pc'[p] # "st_fetch"
         /\ ~call'[p].stError
         /\ ~IsNull(call[p].lastDate) ) =>
       Val(call'[p].result) =
         ( Cardinality({ id \in Embedded :
                           entries[id].created_at > DateOf(Val(call[p].lastDate)) })
             >= (IF IsNull(call[p].threshold) THEN 10
                 ELSE parseInt(Val(call[p].threshold))) )]_vars

\* C4: while last_clustering_date has never been set, shouldTriggerClustering
\* returns true if and only if at least 5 entries have an embedding, whatever
\* cluster_threshold is.
C4_FirstTriggerAtFiveEmbedded ==
  [][\A p \in Tasks :
       ( /\ pc[p] = "st_fetch"
         /\ pc'[p] # "st_fetch"
         /\ ~call'[p].stError
         /\ IsNull(settings["last_clustering_date"]) ) =>
       Val(call'[p].result) = (Cardinality(Embedded) >= 5)]_vars

\* shouldTriggerClustering answered true with cluster_threshold '1' and no run recorded.
C4_Witness ==
  /\ call["bg"].result = Some(TRUE)
  /\ ~call["bg"].stError
  /\ call["bg"].threshold = Some(NumberString(1))
  /\ IsNull(settings["last_clustering_date"])
  /\ Cardinality(Embedded) = 5

\* C5: a run that finds fewer than 3 embedded entries returns without error
\* and without a write: no cluster_id is written, no folder is deleted or
\* created and last_clustering_date keeps its value.
C5_TooFewEntriesIsNoOp ==
  \A p \in Tasks :
    (~IsNull(run[p].n) /\ Val(run[p].n) < 3) =>
       /\ pc[p] = "done"
       /\ run[p].outcome = "ok"
       /\ ~run[p].error
       /\ run[p].writes = {}
       /\ run[p].deleted = {}
       /\ run[p].created = << >>
       /\ ~run[p].setDate
       /\ \A id \in DOMAIN entries : IsNull(entries[id].cluster_id)
       /\ FolderIds(ClusterFolders) = FolderIds(run[p].startFolders)
       /\ settings["last_clustering_date"] = run[p].startDate

\* A run over a store of two embedded entries has returned.
C5_Witness ==
  /\ pc["direct"] = "done"
  /\ run["direct"].n = Some(2)
  /\ run["direct"].outcome = "ok"
  /\ Cardinality(Embedded) = 2

\* C6: in a run over at least 3 embedded entries no cluster folder that
\* existed when the run was called exists any more once the run has created a
\* folder, nor once it has returned without error.
C6_OldFoldersDeletedFirst ==
  \A p \in Tasks :
    LET old == FolderIds(run[p].startFolders) \cap FolderIds(folders)
    IN  /\ run[p].created # << >> => old = {}
        /\ (FinishedOk(p) /\ Val(run[p].n) >= 3) => old = {}

\* A run that started with a renamed cluster folder has returned without
\* error, having created folders.
C6_Witness ==
  /\ FinishedOk("direct")
  /\ run["direct"].created # << >>
  /\ \E f \in run["direct"].startFolders : f.name = "Renamed"

\* C7: after a run that returned without error there is exactly one cluster
\* folder, made by this run, for each cluster id assigned to at least 2
\* entries and none for a cluster id assigned to fewer; every entry carries
\* the cluster id it was assigned, those of a dropped cluster too.
C7_OneFolderPerSurvivingCluster ==
  \A p \in Tasks :
    (FinishedOk(p) /\ Val(run[p].n) >= 3) =>
       /\ \A c \in AssignedClusters(p) :
            LET carrying == { f \in ClusterFolders : f.cluster_id = Some(c) }
            IN  IF Cardinality(ClusterGroup(run[p].assign, c)) >= 2
                THEN /\ Cardinality(carrying) = 1
                     /\ Cardinality(CreatedFor(p, c)) = 1
                     /\ FolderIds(carrying) \cap FolderIds(run[p].startFolders) = {}
                ELSE /\ carrying = {}
                     /\ CreatedFor(p, c) = {}
       /\ \A f \in ClusterFolders : Val(f.cluster_id) \in AssignedClusters(p)
       /\ \A i \in 1..Len(run[p].assign) :
            entries[run[p].assign[i].entryId].cluster_id
              = Some(run[p].assign[i].clusterId)

\* A run has returned that put three entries in one cluster and one entry
\* alone in another.
C7_Witness ==
  /\ FinishedOk("direct")
  /\ \E c \in AssignedClusters("direct") :
       Cardinality(ClusterGroup(run["direct"].assign, c)) = 1
  /\ \E c \in AssignedClusters("direct") :
       Cardinality(ClusterGroup(run["direct"].assign, c)) = 3

\* C8: for 6 embedded entries in two separable groups of 3, a run with k = 2
\* ends, whatever the initial centroids, with exactly 2 cluster folders whose
\* members are the two groups, every entry's cluster_id being that of one of
\* the folders.
C8_TwoGroupsTwoFolders ==
  (FinishedOk("direct") /\ run["direct"].n = Some(6)) =>
     /\ Cardinality(ClusterFolders) = 2
     /\ \A f \in ClusterFolders :
          { id \in DOMAIN entries : entries[id].cluster_id = f.cluster_id }
            \in { {1, 2, 3}, {4, 5, 6} }
     /\ \A id \in DOMAIN entries :
          \E f \in ClusterFolders : entries[id].cluster_id = f.cluster_id

\* C9: when labelling fails for a cluster its folder is created with the
\* name "Untitled Topic"; unless a store call fails, the run goes on to
\* create the folders of all surviving clusters and to write
\* last_clustering_date.
C9_LabelFailureFallsBack ==
  \A p \in Tasks :
    /\ \A key \in run[p].labelFailed :
         \/ run[p].error /\ CreatedFor(p, key) = {}
         \/ \E i \in CreatedFor(p, key) : run[p].created[i].name = "Untitled Topic"
    /\ (pc[p] = "done" /\ run[p].labelFailed # {} /\ ~run[p].error) =>
         /\ run[p].outcome = "ok"
         /\ Len(run[p].created) = Len(run[p].keys)
         /\ \A i \in 1..Len(run[p].created) :
              run[p].created[i].id \in FolderIds(ClusterFolders)
         /\ run[p].setDate
         /\ ~IsNull(settings["last_clustering_date"])

\* A run of two surviving clusters, labelling having failed for one of them,
\* has returned.
C9_Witness ==
  /\ pc["direct"] = "done"
  /\ run["direct"].labelFailed # {}
  /\ Len(run["direct"].created) = 2
  /\ \E i \in 1..2 : run["direct"].created[i].name = "Untitled Topic"
  /\ \E i \in 1..2 : run["direct"].created[i].name # "Untitled Topic"
  /\ run["direct"].setDate

\* C10: a searchEntries call in whose semantic leg the embedding provider
\* failed settles with an error.
C10_ProviderFailureFailsSearch ==
  (search.pc = "done" /\ search.fn = "searchEntries" /\ search.providerFailed)
     => search.outcome = "rejected"

\* The queries that are empty or hold white space only.
BlankQueries == {"", "  "}

\* C11: called with an empty or whitespace-only query, searchEntries,
\* performKeywordSearch and performSemanticSearch each return an empty list,
\* the embedding provider not called and the entry store not queried.
C11_BlankQueryReturnsEmpty ==
  (search.pc # "idle" /\ search.query \in BlankQueries) =>
     /\ search.pc = "done"
     /\ search.outcome = "resolved"
     /\ search.result = << >>
     /\ search.providerCalls = 0
     /\ search.storeQueries = 0

\* performSemanticSearch has returned for a query of white space.
C11_Witness ==
  /\ search.pc = "done"
  /\ search.fn = "performSemanticSearch"
  /\ search.query = "  "
  /\ search.result = << >>

\* The weights combineResults is applied with: those of DEFAULT_CONFIG and
\* another pair.
WeightOptions == { << SemanticWeight, KeywordWeight >>, << Rat(1, 4), Rat(3, 4) >> }

\* The score an entry has in a leg, 0 where the leg has no row for it.
LegScore(results, id) ==
  IF id \in Ids(results) THEN RowOf(results, id).score ELSE Rat(0, 1)

\* A hybrid searchEntries call has returned; both legs' rows are known.
HybridDone ==
  /\ search.pc = "done"
  /\ search.fn = "searchEntries"
  /\ search.mode = "hybrid"
  /\ search.query \notin BlankQueries

\* C12: combineResults returns exactly one row per entry id of the semantic
\* leg, the keyword leg or both, and the row's combinedScore is
\* semanticScore*semanticWeight + keywordScore*keywordWeight, a leg without
\* the entry contributing score 0.
C12_CombinedScoreIsWeightedSum ==
  HybridDone =>
    \A w \in WeightOptions :
      LET sem == search.semanticResults
          kw == search.keywordResults
          out == combineResults(sem, kw, w[1], w[2])
      IN  /\ Ids(out) = Ids(sem) \cup Ids(kw)
          /\ Len(out) = Cardinality(Ids(sem) \cup Ids(kw))
          /\ \A i \in 1..Len(out) :
                LET r == out[i]
                    a == LegScore(sem, r.id)
                    b == LegScore(kw, r.id)
                IN  /\ RatEq(r.semanticScore, a)
                    /\ RatEq(r.keywordScore, b)
                    /\ r.combinedScore.num * (a.den * w[1].den * b.den * w[2].den)
                         = (a.num * w[1].num * b.den * w[2].den
                              + b.num * w[2].num * a.den * w[1].den)
                           * r.combinedScore.den

\* A hybrid call has returned a row for an entry both legs found, with both
\* scores positive, and a row for an entry only the keyword leg found.
C12_Witness ==
  /\ HybridDone
  /\ \E i, j \in 1..Len(search.result) :
       /\ search.result[i].id \in Ids(search.semanticResults) \cap Ids(search.keywordResults)
       /\ search.result[i].semanticScore.num > 0
       /\ search.result[i].keywordScore.num > 0
       /\ search.result[j].id \in Ids(search.keywordResults) \ Ids(search.semanticResults)
       /\ RatEq(search.result[j].combinedScore,
                RatMul(KeywordWeight, LegScore(search.keywordResults, search.result[j].id)))

\* A searchEntries call with a query that is not blank has returned.
SearchDone ==
  /\ search.pc = "done"
  /\ search.fn = "searchEntries"
  /\ search.query \notin BlankQueries

\* The entries the legs of the call's mode found, and the combined score of
\* each: the leg's score in a single-leg mode, the weighted sum in hybrid.
Candidates ==
  CASE search.mode = "semantic" -> Ids(search.semanticResults)
    [] search.mode = "keyword" -> Ids(search.keywordResults)
    [] OTHER -> Ids(search.semanticResults) \cup Ids(search.keywordResults)
CandidateScore(id) ==
  CASE search.mode = "semantic" -> LegScore(search.semanticResults, id)
    [] search.mode = "keyword" -> LegScore(search.keywordResults, id)
    [] OTHER -> LET a == LegScore(search.semanticResults, id)
                    b == LegScore(search.keywordResults, id)
                IN  Rat(a.num * SemanticWeight.num * b.den * KeywordWeight.den
                          + b.num * KeywordWeight.num * a.den * SemanticWeight.den,
                        a.den * SemanticWeight.den * b.den * KeywordWeight.den)
Passing == { id \in Candidates : ~RatLess(CandidateScore(id), MinScore) }

MatchingFields(id) ==
  LET term == toLowerCase(search.query)
  IN  { f \in {"name", "summary", "topics", "transcript"} :
          Like(IF f = "topics" THEN TopicsText(entries[id].topics) ELSE entries[id][f],
               term) }

\* The keyword leg of the call has got its rows from the store.
KeywordLegDone ==
  /\ search.kw = "done"
  /\ ~search.storeFailed

\* C14: in performKeywordSearch an entry's raw score is that of the single
\* highest-precedence field containing the query (name 4, summary 3, topics 2,
\* full text 1), never a sum over the matching fields; an entry matching in
\* its name only is ranked above one matching in its transcript only.
C14_HighestTierOnly ==
  KeywordLegDone =>
    LET kw == search.keywordResults
    IN  /\ Ids(kw) = { id \in DOMAIN entries : MatchingFields(id) # {} }
        /\ \A i \in 1..Len(kw) :
              LET fields == MatchingFields(kw[i].id)
                  raw == kw[i].score.num
              IN  /\ "name" \in fields => raw = 4
                  /\ ("name" \notin fields /\ "summary" \in fields) => raw = 3
                  /\ (fields \cap {"name", "summary"} = {} /\ "topics" \in fields)
                       => raw = 2
                  /\ fields = {"transcript"} => raw = 1
        /\ \A i, j \in 1..Len(kw) :
              (MatchingFields(kw[i].id) = {"name"}
                 /\ MatchingFields(kw[j].id) = {"transcript"}) => i < j

\* The keyword leg has returned rows for an entry matching in its name only,
\* one matching in its transcript only, and one matching in two fields.
C14_Witness ==
  /\ KeywordLegDone
  /\ \E i, j, m \in 1..Len(search.keywordResults) :
       /\ MatchingFields(search.keywordResults[i].id) = {"name"}
       /\ MatchingFields(search.keywordResults[j].id) = {"transcript"}
       /\ MatchingFields(search.keywordResults[m].id) = {"summary", "transcript"}
       /\ search.keywordResults[m].score.num = 3

\* The semantic leg of the call has scored the rows it got from the store.
SemanticLegDone ==
  /\ search.sem = "done"
  /\ ~search.providerFailed
  /\ ~search.storeFailed

\* C15: performSemanticSearch returns one row for each stored entry that has
\* an embedding and none for an entry without one, in descending order of
\* cosine similarity to the query embedding.
C15_SemanticRowsAreEmbeddedEntries ==
  SemanticLegDone =>
    LET sem == search.semanticResults
    IN  /\ Ids(sem) = Embedded
        /\ Len(sem) = Cardinality(Embedded)
        /\ \A i \in 1..Len(sem) :
              RatEq(sem[i].score,
                    SimValue(cosineSimilarity(
                      search.embedding,
                      Some(JSONParse(Val(entries[sem[i].id].embedding))))))
        /\ \A i, j \in 1..Len(sem) : i < j => ~RatLess(sem[i].score, sem[j].score)

\* The semantic leg has returned rows of different scores, the newest entry
\* not first, for a store that also holds an entry without an embedding.
C15_Witness ==
  /\ SemanticLegDone
  /\ DOMAIN entries \ Embedded # {}
  /\ Len(search.semanticResults) > 2
  /\ RatLess(search.semanticResults[2].score, search.semanticResults[1].score)
  /\ entries[search.semanticResults[1].id].created_at
       < entries[search.semanticResults[2].id].created_at

\* C16: clusterEmbeddings called with fewer entries than k does no
\* clustering and assigns every entry to cluster 0.
C16_FewerThanKAllClusterZero ==
  (engine.pc = "done" /\ Len(engine.entries) < engine.k) =>
     /\ engine.draws = 0
     /\ Len(engine.out) = Len(engine.entries)
     /\ \A i \in 1..Len(engine.out) :
           /\ engine.out[i].entryId = engine.entries[i].id
           /\ engine.out[i].clusterId = 0

\* Two entries of different directions have been clustered with k = 3.
C16_Witness ==
  /\ engine.pc = "done"
  /\ engine.k = 3
  /\ Len(engine.entries) = 2
  /\ engine.entries[1].embedding # engine.entries[2].embedding
  /\ Len(engine.out) = 2

\* C17: for every list of N entries and every k <= N, clusterEmbeddings
\* returns one (entryId, clusterId) pair per entry, in input order, with
\* every clusterId an integer of 0..k-1.
C17_OnePairPerEntryInRange ==
  (engine.pc = "done" /\ engine.k <= Len(engine.entries)) =>
     /\ Len(engine.out) = Len(engine.entries)
     /\ \A i \in 1..Len(engine.out) :
           /\ engine.out[i].entryId = engine.entries[i].id
           /\ engine.out[i].clusterId \in 0..(engine.k - 1)

\* Three entries have been clustered with k = 2 and both clusters are used.
C17_Witness ==
  /\ engine.pc = "done"
  /\ engine.k = 2
  /\ Len(engine.entries) = 3
  /\ { engine.out[i].clusterId : i \in 1..Len(engine.out) } = {0, 1}

\* The promise of generateEmbeddingAndTopics is never rejected.
C18_NeverRejected == call["bg"].outcome # "rejected"

\* A step leaves every entry in the store, its transcript and summary as
\* they were.
C18_SavedTextKept ==
  \A id \in DOMAIN entries :
    /\ id \in DOMAIN entries'
    /\ entries'[id].transcript = entries[id].transcript
    /\ entries'[id].summary = entries[id].summary

\* C18: a failure of the background enrichment started after a save (the
\* embedding, the topics, the trigger check or the cluster regeneration) never
\* reaches the foreground handler and never changes or removes the transcript
\* and summary saved for the entry.
C18_EnrichmentFailureContained ==
  [] C18_NeverRejected /\ [][C18_SavedTextKept]_vars

\* The regeneration the enrichment triggered has failed and the enrichment
\* has ended, the saved entry holding its transcript and summary.
C18_Witness ==
  /\ pc["bg"] = "done"
  /\ run["bg"].error
  /\ call["bg"].outcome = "resolved"
  /\ call["bg"].entry \in DOMAIN entries
  /\ entries[call["bg"].entry].transcript = Some(RecordedText)
  /\ entries[call["bg"].entry].summary = Some(RecordedText)

\* The entries of the store that lack an embedding.
LackingEmbedding == { id \in DOMAIN entries : IsNull(entries[id].embedding) }

\* A backfill that found entries to enrich and has returned reports its
\* counts of processed entries and of entries found.
C19_ReportsAggregate ==
  (pc["bf"] = "done" /\ call["bf"].outcome = "resolved" /\ call["bf"].total > 0) =>
     call["bf"].result = Some([processed |-> call["bf"].processed,
                               total |-> call["bf"].total])

\* A step of the backfill: the call counts the entries lacking an embedding;
\* a step on an entry either goes on within the entry or leaves it for the
\* next one or for the regeneration, whether it failed or not, and counts the
\* entry exactly when the step has written the topics after the embedding;
\* the regeneration changes no count.
C19_LoopStep ==
  LET c == call["bf"]
      d == call'["bf"]
  IN  /\ (calls'["bf"] # calls["bf"] /\ d.outcome # "rejected") =>
            /\ d.total = Cardinality(LackingEmbedding)
            /\ { d.todo[i] : i \in 1..Len(d.todo) } = LackingEmbedding
            /\ d.processed = 0
      /\ pc["bf"] \in {"bf_embed", "bf_topics"} =>
            LET id == Head(c.todo)
            IN  /\ d.total = c.total
                /\ d.outcome = "none"
                /\ \/ pc'["bf"] = "bf_topics" /\ d.todo = c.todo
                   \/ pc'["bf"] = "bf_embed" /\ d.todo = Tail(c.todo) /\ d.todo # << >>
                   \/ pc'["bf"] = "r_fetch" /\ d.todo = << >> /\ Tail(c.todo) = << >>
                /\ d.processed \in {c.processed, c.processed + 1}
                /\ d.processed = c.processed + 1
                     <=> /\ pc["bf"] = "bf_topics"
                         /\ IsNull(entries[id].topics)
                         /\ ~IsNull(entries'[id].topics)
                         /\ ~IsNull(entries'[id].embedding)
      /\ pc["bf"] \in RunPositions =>
            /\ d.total = c.total
            /\ d.processed = c.processed

\* C19: in backfillEmbeddings an entry whose enrichment fails is skipped and
\* the loop continues with the remaining entries; at the end the operation
\* reports {processed, total}, total the number of entries that lacked an
\* embedding and processed the number of entries for which both the embedding
\* and the topics were written.
C19_BackfillSkipsAndReports ==
  [] C19_ReportsAggregate /\ [][C19_LoopStep]_vars

\* A backfill over three entries has returned {processed: 1, total: 3}: the
\* enrichment of one entry failed, one entry had no text and one was enriched.
C19_Witness ==
  /\ pc["bf"] = "done"
  /\ faults = 1
  /\ ~run["bf"].error
  /\ call["bf"].result = Some([processed |-> 1, total |-> 3])
  /\ Cardinality({ id \in DOMAIN entries :
                     ~IsNull(entries[id].embedding) /\ ~IsNull(entries[id].topics) })
       = InitEntries

\* C20: in every reachable state of the store, under any interleaving of
\* saves, background enrichment, backfill, regeneration and deletion, an entry
\* with a non-null cluster_id has a non-null embedding.
C20_ClusteredEntriesAreEmbedded ==
  \A id \in DOMAIN entries :
    ~IsNull(entries[id].cluster_id) => ~IsNull(entries[id].embedding)

\* A regeneration has written its assignments although one of the entries it
\* had read was deleted meanwhile; entries with a cluster id remain, next to an
\* entry that has neither embedding nor cluster id.
C20_Witness ==
  /\ \E p \in {"bg", "bf"} :
       /\ FinishedOk(p)
       /\ run[p].setDate
       /\ \E i \in 1..Len(run[p].assign) : run[p].assign[i].entryId \notin DOMAIN entries
  /\ \E id \in DOMAIN entries : ~IsNull(entries[id].cluster_id)
  /\ \E id \in DOMAIN entries :
       IsNull(entries[id].cluster_id) /\ IsNull(entries[id].embedding)

\* The arguments for which cosineSimilarity has nothing to measure.
NothingToMeasure(a, b) ==
  \/ IsNull(a)
  \/ IsNull(b)
  \/ Len(Val(a).num) # Len(Val(b).num)
  \/ NormSq(Val(a).num) = 0
  \/ NormSq(Val(b).num) = 0

\* C21: cosineSimilarity never throws, and returns 0 whenever either vector
\* is null or absent, the two vectors differ in length, or either vector has
\* zero norm.
C21_CosineZeroWhenUndefined ==
  engine.pc = "done" =>
     /\ engine.outcome = "returned"
     /\ NothingToMeasure(engine.a, engine.b) => engine.out = Some([d |-> 0, n |-> 1])

\* cosineSimilarity has returned 0 for a vector of zero norm and another of
\* the same length that is not zero.
C21_Witness ==
  /\ engine.pc = "done"
  /\ ~IsNull(engine.a)
  /\ ~IsNull(engine.b)
  /\ Len(Val(engine.a).num) = 2
  /\ Len(Val(engine.b).num) = 2
  /\ NormSq(Val(engine.a).num) = 0
  /\ NormSq(Val(engine.b).num) > 0
  /\ engine.out = Some([d |-> 0, n |-> 1])

\* The rows of conversation_messages and folder_entries that refer to entry id.
DerivedRows(d, id) ==
  { m \in d.messages : m.entry_id = id } \cup { f \in d.folder_entries : f.entry_id = id }

\* C22: once deleteJournalEntry(id) has completed, no conversation message
\* and no folder_entries membership row with that entry_id remains.
C22_DeleteCascades ==
  [][\A id \in DOMAIN entries \ DOMAIN entries' : DerivedRows(derived', id) = {}]_vars

\* The entry ids a run has assignments for.
AssignedIds(p) == { run[p].assign[i].entryId : i \in 1..Len(run[p].assign) }

\* The cluster_id writes a run has made are in the store, and a run that
\* failed has left last_clustering_date as it found it.
C23_WritesKept ==
  \A p \in Tasks :
    (pc[p] # "idle" /\ (pc[p] = "done" => run[p].error)) =>
       /\ \A i \in 1..Len(run[p].assign) :
             run[p].assign[i].entryId \in run[p].writes =>
               entries[run[p].assign[i].entryId].cluster_id
                 = Some(run[p].assign[i].clusterId)
       /\ settings["last_clustering_date"] = run[p].startDate

\* A step of a run that deletes or creates a folder comes after the run has
\* written the cluster_id of every entry it clustered.
C23_WritesBeforeFolders ==
  \A p \in Tasks :
    (InFlight(p) /\ folders' # folders) =>
       /\ pc[p] \in {"r_delete", "r_create"}
       /\ run[p].writes = AssignedIds(p)
       /\ \A id \in AssignedIds(p) : ~IsNull(entries[id].cluster_id)

RequestedCount(p) ==
  IF ~IsNull(run[p].numClusters) THEN Val(run[p].numClusters)
  ELSE IF ~IsNull(settings["cluster_count"])
       THEN Val(settings["cluster_count"]).digits
  ELSE 5

\* C24: for N >= 3 embedded entries and a requested cluster count k >= 1
\* (argument, cluster_count setting or the default 5), regenerateClusters calls
\* the engine with k' = min(k, floor(N/2)), so that 1 <= k' <= N and the
\* engine's N < k branch is not taken.
C24_EffectiveKWithinEntries ==
  (pc["direct"] = "r_write" /\ RequestedCount("direct") >= 1) =>
     LET n == Val(run["direct"].n)
         k == Val(run["direct"].k)
     IN  /\ n = Cardinality(Embedded)
         /\ n >= 3
         /\ \/ k = RequestedCount("direct") /\ k <= n \div 2
            \/ k = n \div 2 /\ k <= RequestedCount("direct")
         /\ 1 <= k
         /\ k <= n
         /\ ~run["direct"].fallback
         /\ Len(run["direct"].assign) = n

\* The engine was called for five entries with the count cut from 7 to 2.
C24_Witness ==
  /\ pc["direct"] = "r_write"
  /\ RequestedCount("direct") = 7
  /\ run["direct"].n = Some(5)
  /\ run["direct"].k = Some(2)
  /\ { run["direct"].assign[i].clusterId : i \in 1..5 } = {0, 1}

MembersAfter(i, j) ==
  { e \in 1..Len(engine.entries) : engine.trace[i][e] = j }

\* C26: in the update step of clusterEmbeddings a centroid with at least one
\* member becomes the element-wise mean of its members' embeddings, and a
\* centroid without members keeps the value it had before the step.
C26_UpdateMeanOrKept ==
  engine.pc = "done" =>
     \A i \in 1..(Len(engine.trace) - 1) : \A j \in 0..(engine.k - 1) :
        LET old == engine.centroidTrace[i][j + 1]
            new == engine.centroidTrace[i + 1][j + 1]
            members == MembersAfter(i, j)
        IN  IF members = {}
            THEN new = old
            ELSE /\ new.den = Cardinality(members)
                 /\ \A dd \in 1..Len(new.num) :
                      new.num[dd] =
                        SumTo([e \in 1..Len(engine.entries) |->
                                 IF e \in members
                                 THEN engine.entries[e].embedding.num[dd] ELSE 0],
                              Len(engine.entries))

\* An update step that averaged two entries into one centroid, moving it, and
\* left a centroid without members where it was.
C26_Witness ==
  /\ engine.pc = "done"
  /\ Len(engine.trace) >= 2
  /\ \E j \in 0..(engine.k - 1) :
       /\ MembersAfter(1, j) = {}
       /\ engine.centroidTrace[2][j + 1] = engine.centroidTrace[1][j + 1]
  /\ \E j \in 0..(engine.k - 1) :
       /\ Cardinality(MembersAfter(1, j)) = 2
       /\ engine.centroidTrace[2][j + 1] # engine.centroidTrace[1][j + 1]

\* C27: whenever no run of regenerateClusters is in flight, no two folders of
\* type 'cluster' have the same cluster index, whatever calls from the
\* enrichment task and from the backfill led there.
C27_OneFolderPerClusterIndex ==
  (\A p \in Tasks : ~InFlight(p)) =>
     \A f, g \in ClusterFolders : f.cluster_id = g.cluster_id => f = g

\* The entries partitioned by a run that went on to write last_clustering_date.
PartitionedByRecordedRun ==
  UNION { AssignedIds(p) : p \in { q \in Tasks : run[q].setDate } }

\* The entries shouldTriggerClustering counts: all embedded ones while no date
\* is recorded, afterwards those of its rows dated after the recorded date.
CountedTowardTrigger ==
  IF IsNull(settings["last_clustering_date"])
  THEN Embedded
  ELSE { id \in Embedded :
           EntryDateAfter(ClusteringRow(entries, id),
                          DateOf(Val(settings["last_clustering_date"]))) }

\* C28: every entry that has an embedding was partitioned by the clustering
\* run that recorded last_clustering_date or is counted by
\* shouldTriggerClustering toward the next trigger, also when its embedding was
\* stored while a run was between its fetch and its date write.
C28_EmbeddedPartitionedOrCounted ==
  Embedded \subseteq (PartitionedByRecordedRun \cup CountedTowardTrigger)

\* C29: regenerateClusters neither deletes nor modifies a smart folder whose
\* type is not 'cluster' nor a manual folder: after any number of runs,
\* successful or failed, the rule folder has its id, name and rules, and the
\* manual folder its id, its name and its entry.
C29_OtherFoldersUntouched ==
  /\ { f \in folders : f.type # "cluster" } = {RuleFolder}
  /\ derived.manual_folders = {TripsFolder}
  /\ derived.folder_entries = {TripsMembership}

\* A second run has deleted the cluster folder with the manual folder's id
\* and failed before creating a new one.
C29_Witness ==
  /\ pc["direct"] = "done"
  /\ calls["direct"] = 2
  /\ run["direct"].error
  /\ 2 \in run["direct"].deleted
  /\ ClusterFolders = {}
  /\ RuleFolder \in folders

\* C30: every solo recording that handleStopRecording processed to the end
\* is stored as an entry that this call created, whose audio_path is the
\* recording's file and whose transcript is the recording's, also when an
\* earlier call failed: no two processed recordings share an entry.
C30_RecordingStoredAsOwnEntry ==
  \A i \in 1..Len(screen.processed) :
     LET rec == screen.processed[i]
     IN  /\ rec.created
         /\ rec.entryId \in DOMAIN entries
         /\ entries[rec.entryId].audio_path = Some(rec.uri)
         /\ \A j \in 1..Len(screen.processed) :
              screen.processed[j].entryId = rec.entryId => j = i

=============================================================================
